---- MODULE Spec2Model ----
(***************************************************************************)
(* Plan executor of the CRM agent (app/core): execute_plan and the tools   *)
(* it dispatches to, the access policy gate, the artifact store.           *)
(*                                                                         *)
(* Data representation.                                                    *)
(*  - A cell of a DataFrame is a tagged value: Str(s), Num(n) or NaN.      *)
(*  - A column name is the sequence of its dot-separated segments, so that *)
(*    "ssn.last4" is <<"ssn", "last4">> and c.split(".")[0] is Head(c).    *)
(*  - A source document is a sequence of fields in key order; a field      *)
(*    holds a scalar cell or a nested document.                            *)
(*  - Optional[DataFrame] is a record with a none flag.                    *)
(***************************************************************************)
EXTENDS Integers, Sequences, FiniteSets, TLC

\* ------------------------------------------------------------------ bounds

\* Longest plan enumerated over ToolCalls (the planner's fixed plans are added).
MaxPlanLen == 2
\* Size of the space os.urandom(12) draws artifact ids from (2^96 in the code).
IdSpace == 2

\* --------------------------------------------------------------- constants

PreviewRows == 10
LimitDefault == 1000
LimitMin == 1
LimitMax == 20000
ReportRowLimit == 20000

\* ------------------------------------------------------------------- cells

Str(s) == [k |-> "str", s |-> s, n |-> 0]
Num(n) == [k |-> "num", s |-> "", n |-> n]
NaN == [k |-> "nan", s |-> "", n |-> 0]

\* Lexicographic order of the strings that occur as sort or group keys.
StrOrder == <<"Aryan", "Priya", "Sneha">>

StrRank(s) == IF \E i \in 1..Len(StrOrder) : StrOrder[i] = s
              THEN CHOOSE i \in 1..Len(StrOrder) : StrOrder[i] = s
              ELSE 0

\* Order of two cells of one column: NaN last, numbers by value, strings by rank.
CellLess(a, b) ==
    IF a.k = "nan" THEN FALSE
    ELSE IF b.k = "nan" THEN TRUE
    ELSE IF a.k = "num" /\ b.k = "num" THEN a.n < b.n
    ELSE IF a.k = "str" /\ b.k = "str" THEN StrRank(a.s) < StrRank(b.s)
    ELSE a.k = "num"

\* --------------------------------------------------------- source documents

Field(key, v) == [key |-> key, dict |-> FALSE, val |-> v, sub |-> <<>>]
Nested(key, fields) == [key |-> key, dict |-> TRUE, val |-> NaN, sub |-> fields]

Range(s) == {s[i] : i \in 1..Len(s)}

Min(a, b) == IF a < b THEN a ELSE b

\* The fields of a nested document, flattened in key order under a prefix.
RECURSIVE nested_to_record(_, _)
nested_to_record(d, prefix) ==
    IF d = <<>> THEN <<>>
    ELSE LET f == Head(d)
             newkey == prefix \o f.key
         IN  (IF f.dict THEN nested_to_record(f.sub, newkey)
                        ELSE <<[col |-> newkey, val |-> f.val]>>)
             \o nested_to_record(Tail(d), prefix)

\* One flat record per document: the top-level scalars first, then the
\* flattened nested documents, each under its dotted path.
normalise_json(d) ==
    LET scalars == SelectSeq(d, LAMBDA f : ~f.dict)
        dicts == SelectSeq(d, LAMBDA f : f.dict)
    IN  nested_to_record(scalars, <<>>) \o nested_to_record(dicts, <<>>)

\* The columns of a list of flat records, in order of first appearance.
ColumnsOf(pairs, seen) ==
    LET fresh == {pairs[i].col : i \in 1..Len(pairs)} \ Range(seen)
        First(c) == CHOOSE i \in 1..Len(pairs) : pairs[i].col = c /\ \A j \in 1..(i - 1) : pairs[j].col # c
        Rank(c) == Cardinality({d \in fresh : First(d) <= First(c)})
    IN  seen \o [k \in 1..Cardinality(fresh) |-> CHOOSE c \in fresh : Rank(c) = k]

\* The concatenation of the sequences of ss, in order.
Flatten(ss) ==
    LET places == UNION {{<<i, j>> : j \in 1..Len(ss[i])} : i \in 1..Len(ss)}
        Rank(q) == Cardinality({r \in places : r[1] < q[1] \/ (r[1] = q[1] /\ r[2] <= q[2])})
    IN  [k \in 1..Cardinality(places) |->
            ss[(CHOOSE q \in places : Rank(q) = k)[1]][(CHOOSE q \in places : Rank(q) = k)[2]]]

\* The value a flat record gives a column: the last pair written wins (dict
\* update), a column the record lacks is NaN.
ValueIn(rec, c) ==
    LET hits == {i \in 1..Len(rec) : rec[i].col = c}
    IN  IF hits = {} THEN NaN
        ELSE rec[CHOOSE i \in hits : \A j \in hits : j <= i].val

\* -------------------------------------------------------------- DataFrames

NoneDF == [none |-> TRUE, columns |-> <<>>, rows |-> <<>>]
EmptyDF == [none |-> FALSE, columns |-> <<>>, rows |-> <<>>]

\* pd.DataFrame(records): one row per record over the union of the columns.
DataFrame(records) ==
    LET cols == ColumnsOf(Flatten(records), <<>>)
    IN  [none |-> FALSE,
         columns |-> cols,
         rows |-> [i \in 1..Len(records) |-> [c \in Range(cols) |-> ValueIn(records[i], c)]]]

json_normalize(docs) == DataFrame([i \in 1..Len(docs) |-> normalise_json(docs[i])])

\* df.head(n)
head(df, n) == [df EXCEPT !.rows = SubSeq(df.rows, 1, Min(n, Len(df.rows)))]

\* df[cols]: the projection to the listed columns, rows in order.
Project(df, cols) ==
    [none |-> FALSE,
     columns |-> cols,
     rows |-> [i \in 1..Len(df.rows) |-> [c \in Range(cols) |-> df.rows[i][c]]]]

\* df.empty: no rows or no columns.
IsEmpty(df) == Len(df.rows) = 0 \/ Len(df.columns) = 0

\* df.head(10).to_dict(orient="records") if df is not None else []
MutPreviewAll(df) == df.rows
Preview(df) == IF df.none THEN <<>> ELSE head(df, PreviewRows).rows

\* ------------------------------------------------------------ configuration

\* CFG.ALLOWED_COLLECTIONS (its default value).
ALLOWED_COLLECTIONS == <<"leads", "tasks", "notes", "call_logs", "activity">>

\* Collections a call may name: the allowed ones and one that is not allowed.
Collections == Range(ALLOWED_COLLECTIONS) \cup {"users"}

UserIds == {"alice", "manager"}

\* rbac_policy: the collections allowed, the fields denied and the role.
MutPolicyByRole(user_id) ==
    [allow_collections |-> ALLOWED_COLLECTIONS,
     deny_fields |-> IF user_id \in {"admin", "alice"} THEN <<>> ELSE <<"ssn", "salary">>,
     role |-> IF user_id \in {"admin", "alice"} THEN "admin" ELSE "analyst"]

rbac_policy(user_id) ==
    [allow_collections |-> ALLOWED_COLLECTIONS,
     deny_fields |-> <<"ssn", "salary">>,
     role |-> IF user_id \in {"admin", "alice"} THEN "admin" ELSE "analyst"]

\* The mock dataset (the string fields no tool call of the model reads are left out).
MockLead(id, owner, status, amount, region) ==
    <<Field(<<"_id">>, Str(id)), Field(<<"owner">>, Str(owner)), Field(<<"status">>, Str(status)),
      Field(<<"amount">>, Num(amount)), Field(<<"region">>, Str(region))>>

MOCK_DATA ==
    [leads |-> <<MockLead("lead_001", "Priya", "Proposal", 24000, "North"),
                 MockLead("lead_002", "Aryan", "Qualified", 85000, "South"),
                 MockLead("lead_003", "Sneha", "Discovery", 45000, "West"),
                 MockLead("lead_004", "Priya", "Won", 35000, "North")>>,
     tasks |-> << <<Field(<<"_id">>, Str("task_001")), Field(<<"lead_id">>, Str("lead_001")),
                    Field(<<"owner_id">>, Str("Priya")), Field(<<"status">>, Str("Open"))>> >>,
     activity |-> << <<Field(<<"_id">>, Str("activity_001")), Field(<<"lead_id">>, Str("lead_001")),
                       Field(<<"type">>, Str("email"))>> >>,
     notes |-> << <<Field(<<"_id">>, Str("note_001")), Field(<<"lead_id">>, Str("lead_001"))>> >>]

\* MOCK_DATA.get(collection, [])
MockRows(collection) == IF collection \in DOMAIN MOCK_DATA THEN MOCK_DATA[collection] ELSE <<>>

\* What the live database can answer to an aggregate: the documents the
\* pipeline yields before the trailing $limit, or an exception.
DbLeads == MOCK_DATA.leads
DbSensitive ==
    << <<Field(<<"_id">>, Str("u1")), Field(<<"ssn">>, Str("123")),
         Nested(<<"salary">>, <<Field(<<"base">>, Num(10)), Field(<<"bonus">>, Num(2))>>),
         Nested(<<"profile">>, <<Field(<<"ssn">>, Str("123")), Field(<<"owner">>, Str("Priya"))>>)>>,
       <<Field(<<"_id">>, Str("u2")), Field(<<"salary">>, Num(7)),
         Nested(<<"ssn">>, <<Field(<<"last4">>, Str("6789"))>>),
         Field(<<"ssn", "issued">>, Str("2020"))>> >>
DbOnlyDenied == << <<Field(<<"ssn">>, Str("123"))>> >>
\* More documents than a preview holds.
DbMany ==
    [i \in 1..(PreviewRows + 1) |->
        <<Field(<<"_id">>, Num(i)), Field(<<"owner">>, Str("Priya")), Field(<<"amount">>, Num(i))>>]

\* The documents a $group stage yields: a key and a count.
DbGrouped ==
    << <<Field(<<"_id">>, Str("Priya")), Field(<<"count">>, Num(2))>>,
       <<Field(<<"_id">>, Str("Arjun")), Field(<<"count">>, Num(1))>> >>

DbAnswers ==
    {[raises |-> FALSE, status |-> 200, docs |-> d] :
        d \in {<<>>, DbLeads, DbSensitive, DbOnlyDenied, DbMany, DbGrouped}}
    \cup {[raises |-> TRUE, status |-> 0, docs |-> <<>>]}

\* --------------------------------------------------------------- tool specs

Has(args, f) == f \in DOMAIN args
Get(args, f, default) == IF f \in DOMAIN args THEN args[f] ELSE default

\* MongoReadSpec(**args): collection required, limit within [1, 20000].
MongoReadSpec(args) ==
    LET limit == Get(args, "limit", LimitDefault)
    IN  [valid |-> Has(args, "collection") /\ limit >= LimitMin /\ limit <= LimitMax,
         collection |-> Get(args, "collection", ""),
         pipeline |-> Get(args, "pipeline", <<>>),
         limit |-> limit]

\* DataframeOpSpec(**args): operation required.
DataframeOpSpec(args) ==
    [valid |-> Has(args, "operation"),
     operation |-> Get(args, "operation", ""),
     params |-> Get(args, "params", [x \in {} |-> x])]

\* PlotSpec(**args): kind required; an absent x, y or title is None ("").
PlotSpec(args) ==
    [valid |-> Has(args, "kind"),
     kind |-> Get(args, "kind", ""),
     x |-> Get(args, "x", ""),
     y |-> Get(args, "y", ""),
     title |-> Get(args, "title", "")]

\* ExcelSpec(**args): every field has a default.
ExcelSpec(args) ==
    [valid |-> TRUE,
     sheet_name |-> Get(args, "sheet_name", "Sheet1"),
     index |-> Get(args, "index", FALSE),
     autofit |-> Get(args, "autofit", TRUE)]

\* ------------------------------------------------------------ tool outcomes

\* A tool returns a value, raises an HTTPException (status, detail), or raises
\* another exception.  queries: the aggregates it issued to the live database;
\* mock: the collections it read from the mock dataset.
Returned(df, queries, mock) ==
    [kind |-> "ok", status |-> 200, detail |-> "", df |-> df, queries |-> queries, mock |-> mock]
HTTPException(status, detail, queries, mock) ==
    [kind |-> "http", status |-> status, detail |-> detail, df |-> NoneDF, queries |-> queries, mock |-> mock]
Raised(what) ==
    [kind |-> "exc", status |-> 0, detail |-> what, df |-> NoneDF, queries |-> <<>>, mock |-> <<>>]

\* ------------------------------------------------------------------ tools.py

\* _enforce_rbac_collection: TRUE when the collection may be read.
MutAllowAny(user_id, collection) == TRUE

enforce_rbac_collection(user_id, collection) ==
    collection \in Range(rbac_policy(user_id).allow_collections)

\* keep = [c for c in df.columns if c.split(".")[0] not in deny]; df[keep]
MutRedactWholeName(user_id, df) ==
    LET deny == Range(rbac_policy(user_id).deny_fields)
    IN  Project(df, SelectSeq(df.columns, LAMBDA c : ~(Len(c) = 1 /\ Head(c) \in deny)))

Redact(user_id, df) ==
    LET deny == Range(rbac_policy(user_id).deny_fields)
    IN  Project(df, SelectSeq(df.columns, LAMBDA c : Head(c) \notin deny))

\* The stage test of run_mongo: "$where" in stage or "$function" in stage.
ForbiddenStage(stage) == "$where" \in stage.keys \/ "$function" \in stage.keys

run_mongo(user_id, spec, mongo_available, db) ==
    IF ~enforce_rbac_collection(user_id, spec.collection)
    THEN HTTPException(403, "User not allowed to access collection", <<>>, <<>>)
    ELSE IF ~mongo_available
    THEN LET mock_rows == MockRows(spec.collection)
         IN  IF mock_rows = <<>>
             THEN Returned(EmptyDF, <<>>, <<spec.collection>>)
             ELSE Returned(Redact(user_id, head(json_normalize(mock_rows), spec.limit)),
                           <<>>, <<spec.collection>>)
    ELSE IF \E i \in 1..Len(spec.pipeline) : ForbiddenStage(spec.pipeline[i])
    THEN HTTPException(400, "Forbidden stage in pipeline", <<>>, <<>>)
    ELSE LET query == [collection |-> spec.collection, pipeline |-> spec.pipeline, limit |-> spec.limit]
             rows == SubSeq(db.docs, 1, Min(spec.limit, Len(db.docs)))
         IN  IF db.raises
             THEN HTTPException(500, "aggregate failed", <<query>>, <<>>)
             ELSE IF rows = <<>>
             THEN Returned(EmptyDF, <<query>>, <<>>)
             ELSE Returned(Redact(user_id, json_normalize(rows)), <<query>>, <<>>)

\* spec.operation.lower(), on the operation names a call of the model carries.
Lower(s) == IF s = "GroupBy" THEN "groupby" ELSE s

\* Order of two rows on the key columns `by`, first column first.
RECURSIVE RowLess(_, _, _)
RowLess(a, b, by) ==
    IF by = <<>> THEN FALSE
    ELSE LET c == Head(by)
         IN  IF CellLess(a[c], b[c]) THEN TRUE
             ELSE IF CellLess(b[c], a[c]) THEN FALSE
             ELSE RowLess(a, b, Tail(by))

\* The rows in ascending key order, rows of equal key in input order: a row
\* comes after the rows of a smaller key and the earlier rows of its own key.
SortRows(rows, by) ==
    LET Place(i) == Cardinality({j \in 1..Len(rows) :
                        \/ RowLess(rows[j], rows[i], by)
                        \/ ~RowLess(rows[i], rows[j], by) /\ j <= i})
    IN  [k \in 1..Len(rows) |-> rows[CHOOSE i \in 1..Len(rows) : Place(i) = k]]

Reverse(s) == [i \in 1..Len(s) |-> s[Len(s) + 1 - i]]

SameKey(a, b, by) == \A c \in Range(by) : a[c] = b[c]

\* The first row of each run of equal keys of a sorted sequence.
GroupHeads(sorted, by) ==
    LET first == {i \in 1..Len(sorted) : i = 1 \/ ~SameKey(sorted[i - 1], sorted[i], by)}
    IN  [k \in 1..Cardinality(first) |->
            sorted[CHOOSE i \in first : Cardinality({j \in first : j <= i}) = k]]

SumCells(cells) ==
    LET Sum[i \in 0..Len(cells)] ==
            IF i = 0 THEN 0 ELSE Sum[i - 1] + (IF cells[i].k = "num" THEN cells[i].n ELSE 0)
    IN  Sum[Len(cells)]

\* One aggregate of the cells of a group: sum and count (missing values skipped).
Aggregate(fn, cells) ==
    IF fn = "sum" THEN Num(SumCells(cells))
    ELSE Num(Len(SelectSeq(cells, LAMBDA v : v.k # "nan")))

MutGroupByRaw(df, by, agg) ==
    [none |-> FALSE,
     columns |-> by \o [i \in 1..Len(agg) |-> agg[i].col],
     rows |-> [g \in 1..Len(df.rows) |->
                 [c \in Range(by) \cup {agg[i].col : i \in 1..Len(agg)} |-> df.rows[g][c]]]]

\* df.groupby(by).agg(agg).reset_index(): one row per distinct key (rows with a
\* missing key dropped), in ascending key order, key columns first.
GroupBy(df, by, agg) ==
    LET valid == SelectSeq(df.rows, LAMBDA r : \A c \in Range(by) : r[c].k # "nan")
        heads == GroupHeads(SortRows(valid, by), by)
        aggcols == [i \in 1..Len(agg) |-> agg[i].col]
        Fn(c) == agg[CHOOSE i \in 1..Len(agg) : agg[i].col = c].fn
        Members(h) == SelectSeq(valid, LAMBDA r : SameKey(r, h, by))
        Cells(h, c) == [i \in 1..Len(Members(h)) |-> Members(h)[i][c]]
    IN  [none |-> FALSE,
         columns |-> by \o aggcols,
         rows |-> [g \in 1..Len(heads) |->
                     [c \in Range(by) \cup Range(aggcols) |->
                        IF c \in Range(by) THEN heads[g][c]
                        ELSE Aggregate(Fn(c), Cells(heads[g], c))]]]

\* A df.query predicate: [col, cmp, val] with cmp one of ">", "==".
Satisfies(r, q) ==
    IF q.cmp = ">" THEN r[q.col].k = "num" /\ r[q.col].n > q.val.n
    ELSE r[q.col] = q.val

dataframe_ops(df, spec) ==
    LET op == Lower(spec.operation)
        p == spec.params
        cols == Range(df.columns)
    IN  IF df.none THEN Returned(EmptyDF, <<>>, <<>>)
        ELSE IF op = "select"
        THEN IF ~Has(p, "columns") \/ ~(Range(p.columns) \subseteq cols) THEN Raised("KeyError")
             ELSE Returned(Project(df, p.columns), <<>>, <<>>)
        ELSE IF op = "filter"
        THEN IF ~Has(p, "query") THEN Raised("KeyError")
             ELSE IF p.query.col \notin cols THEN Raised("UndefinedVariableError")
             ELSE Returned([df EXCEPT !.rows = SelectSeq(df.rows, LAMBDA r : Satisfies(r, p.query))],
                           <<>>, <<>>)
        ELSE IF op = "sort"
        THEN IF ~Has(p, "by") \/ ~(Range(p.by) \subseteq cols) THEN Raised("KeyError")
             ELSE LET sorted == SortRows(df.rows, p.by)
                  IN  Returned([df EXCEPT !.rows = IF Get(p, "ascending", TRUE) THEN sorted
                                                   ELSE Reverse(SortRows(Reverse(df.rows), p.by))],
                               <<>>, <<>>)
        ELSE IF op = "groupby"
        THEN IF ~Has(p, "by") \/ ~(Range(p.by) \subseteq cols) THEN Raised("KeyError")
             ELSE LET agg == Get(p, "agg", <<[col |-> Get(p, "value_col", <<"_id">>), fn |-> "count"]>>)
                  IN  IF \E i \in 1..Len(agg) : agg[i].col \notin cols THEN Raised("KeyError")
                      ELSE Returned(GroupBy(df, p.by, agg), <<>>, <<>>)
        ELSE HTTPException(400, "Unknown operation", <<>>, <<>>)

\* The bytes an encoder produces, by format and by the rows it encoded.
Payload(fmt, name, df) == [fmt |-> fmt, name |-> name, n |-> Len(df.rows)]

IsNumeric(df, c) == \A i \in 1..Len(df.rows) : df.rows[i][c].k # "str"

MutPlotEmpty(df, spec) ==
    [kind |-> "ok", status |-> 200, detail |-> "", payload |-> Payload("png", spec.kind, df)]

make_plot(df, spec) ==
    LET cols == Range(df.columns)
        Png == [kind |-> "ok", status |-> 200, detail |-> "", payload |-> Payload("png", spec.kind, df)]
        Exc(what) == [kind |-> "exc", status |-> 0, detail |-> what, payload |-> Payload("", "", df)]
        Http(detail) == [kind |-> "http", status |-> 400, detail |-> detail, payload |-> Payload("", "", df)]
    IN  IF df.none \/ IsEmpty(df) THEN Http("No data to plot")
        ELSE IF spec.kind \in {"bar", "line"} /\ spec.x # "" /\ spec.y # ""
        THEN IF ~({<<spec.x>>, <<spec.y>>} \subseteq cols) THEN Exc("KeyError")
             ELSE IF ~IsNumeric(df, <<spec.y>>) THEN Exc("TypeError") ELSE Png
        ELSE IF spec.kind = "pie" /\ spec.y # ""
        THEN IF <<spec.y>> \notin cols THEN Exc("KeyError") ELSE Png
        ELSE IF spec.kind = "scatter" /\ spec.x # "" /\ spec.y # ""
        THEN IF ~({<<spec.x>>, <<spec.y>>} \subseteq cols) THEN Exc("KeyError")
             ELSE IF ~IsNumeric(df, <<spec.x>>) \/ ~IsNumeric(df, <<spec.y>>) THEN Exc("ValueError")
             ELSE Png
        ELSE Http("Invalid plot spec for the provided DataFrame")

export_excel(df, spec) == Payload("xlsx", spec.sheet_name, df)

\* `df_cache or pd.DataFrame()`: None is falsy; the truth value of a DataFrame
\* is ambiguous and bool() of it raises ValueError.
OrEmptyFrame(df_cache) ==
    IF df_cache.none THEN [raises |-> FALSE, df |-> EmptyDF]
    ELSE [raises |-> TRUE, df |-> df_cache]

\* -------------------------------------------------------- metabase_client.py

\* What the analytics service can answer: rows, a non-success status, or no
\* answer at all (the request raises).
MetabaseAnswers ==
    {[raises |-> FALSE, status |-> 200, docs |-> d] : d \in {<<>>, DbLeads, DbSensitive}}
    \cup {[raises |-> FALSE, status |-> 404, docs |-> <<>>], [raises |-> TRUE, status |-> 0, docs |-> <<>>]}

\* pd.DataFrame(rows, columns=cols): the top-level keys are the columns, a
\* nested value stays one cell.
CardFrame(docs) ==
    DataFrame([i \in 1..Len(docs) |->
                 [j \in 1..Len(docs[i]) |->
                    [col |-> docs[i][j].key,
                     val |-> IF docs[i][j].dict THEN Str("{...}") ELSE docs[i][j].val]]])

query_card_dataframe(site, card_id, ans) ==
    IF ~site THEN HTTPException(503, "Metabase site not configured", <<>>, <<>>)
    ELSE IF ans.raises THEN Raised("ConnectionError")
    ELSE IF ans.status # 200 THEN HTTPException(ans.status, "resp.text", <<>>, <<>>)
    ELSE Returned(CardFrame(ans.docs), <<>>, <<>>)

signed_embed_url(site, embed_secret, spec) ==
    IF ~embed_secret \/ ~site
    THEN [kind |-> "http", status |-> 503, detail |-> "Metabase embed secret or site URL not configured", url |-> <<>>]
    ELSE IF spec.resource_type \notin {"dashboard", "question"}
    THEN [kind |-> "exc", status |-> 0, detail |-> "AssertionError", url |-> <<>>]
    ELSE [kind |-> "ok", status |-> 200, detail |-> "",
          url |-> <<"/embed/", spec.resource_type, spec.resource_id, spec.theme>>]

\* --------------------------------------------------------- swagger_client.py

\* What the CRM backend can answer to one call.
SwaggerAnswers ==
    {[raises |-> FALSE, status |-> 200, body |-> "json"],
     [raises |-> FALSE, status |-> 200, body |-> "text"],
     [raises |-> FALSE, status |-> 404, body |-> "text"],
     [raises |-> TRUE, status |-> 0, body |-> ""]}

\* SwaggerClient.call: the request is issued, then its answer decides.
SwaggerCall(path, method, ans) ==
    IF ans.raises THEN [kind |-> "exc", status |-> 0, detail |-> "RequestException", out |-> ""]
    ELSE IF ans.status # 200 THEN [kind |-> "http", status |-> ans.status, detail |-> "resp.text", out |-> ""]
    ELSE [kind |-> "ok", status |-> 200, detail |-> "", out |-> ans.body]

\* The write tools of execute_plan: the fields the tool's spec requires, the key
\* and the response list its result is filed under, the backend operation.
WriteTools ==
    [crm_create_task |-> [tool |-> "crm.create_task", required |-> {"title"}, key |-> "create_task",
                          list |-> "writes", path |-> "/tasks", method |-> "post"],
     crm_create_note |-> [tool |-> "crm.create_note", required |-> {"lead_id", "body"}, key |-> "create_note",
                          list |-> "writes", path |-> "/notes", method |-> "post"],
     crm_log_call |-> [tool |-> "crm.log_call", required |-> {"lead_id", "direction"}, key |-> "log_call",
                       list |-> "writes", path |-> "/call-logs", method |-> "post"],
     crm_create_activity |-> [tool |-> "crm.create_activity", required |-> {"lead_id", "type"},
                              key |-> "create_activity", list |-> "writes", path |-> "/activity", method |-> "post"],
     crm_update_lead |-> [tool |-> "crm.update_lead", required |-> {"lead_id", "fields"}, key |-> "update_lead",
                          list |-> "writes", path |-> "/leads/{lead_id}", method |-> "patch"],
     transport_toggle_vehicle_type |->
         [tool |-> "transport.toggle_vehicle_type", required |-> {"id", "is_active"}, key |-> "toggle_vehicle_type",
          list |-> "writes", path |-> "/vehicle-type-toggle", method |-> "put"],
     transport_trips_paged |->
         [tool |-> "transport.trips_paged", required |-> {}, key |-> "trips_paged",
          list |-> "reads", path |-> "/vehicle-tracking/trips/paged", method |-> "put"],
     transport_add_tracking_log |->
         [tool |-> "transport.add_tracking_log", required |-> {}, key |-> "add_tracking_log",
          list |-> "writes", path |-> "/vehicle-tracking/log", method |-> "put"],
     transport_cancel_trip |->
         [tool |-> "transport.cancel_trip", required |-> {"trip_id"}, key |-> "cancel_trip",
          list |-> "writes", path |-> "/vehicle-tracking/cancel-trip", method |-> "put"],
     transport_allocate_students |->
         [tool |-> "transport.allocate_students", required |-> {}, key |-> "allocate_students",
          list |-> "writes", path |-> "/vehicle-route/students/allocate", method |-> "put"],
     transport_change_route_status |->
         [tool |-> "transport.change_route_status", required |-> {"id", "status"}, key |-> "change_route_status",
          list |-> "writes", path |-> "/vehicle-route/status", method |-> "put"],
     transport_allocate_staff |->
         [tool |-> "transport.allocate_staff", required |-> {}, key |-> "allocate_staff",
          list |-> "writes", path |-> "/vehicle-route/staff/allocate", method |-> "put"]]

WriteToolNames == {WriteTools[w].tool : w \in DOMAIN WriteTools}
WriteTool(tool) == WriteTools[CHOOSE w \in DOMAIN WriteTools : WriteTools[w].tool = tool]

\* The tool's spec accepts the args: every required field is there, and a route
\* status is one of the three literals.
WriteSpecValid(tool, args) ==
    /\ WriteTool(tool).required \subseteq DOMAIN args
    /\ tool = "transport.change_route_status" /\ Has(args, "status")
          => args.status \in {"ACTIVE", "INACTIVE", "UNDER_MAINTENANCE"}

\* ---------------------------------------------------------------- reports.py

Sheet(name, source, card_id, collection, pipeline) ==
    [name |-> name, source |-> source, metabase_card_id |-> card_id,
     mongo_collection |-> collection, mongo_pipeline |-> pipeline]

\* ReportSpec(**args): title and sheets required.
ReportSpec(args) ==
    [valid |-> Has(args, "title") /\ Has(args, "sheets"),
     title |-> Get(args, "title", ""),
     sheets |-> Get(args, "sheets", <<>>)]

NoAnswer == [raises |-> FALSE, status |-> 200, docs |-> <<>>]

\* The answers the collaborator a sheet reads from can give (card id 0 and
\* collection "" stand for None).
SheetAnswers(sheet) ==
    IF sheet.source = "metabase_card" /\ sheet.metabase_card_id # 0 THEN MetabaseAnswers
    ELSE IF sheet.source = "mongo" /\ sheet.mongo_collection # "" THEN DbAnswers
    ELSE {NoAnswer}

\* The frame of one sheet, from the sheet's own query.
SheetFrame(user_id, sheet, cfg, ans) ==
    IF sheet.source = "metabase_card" /\ sheet.metabase_card_id # 0
    THEN query_card_dataframe(cfg.site, sheet.metabase_card_id, ans)
    ELSE IF sheet.source = "mongo" /\ sheet.mongo_collection # ""
    THEN run_mongo(user_id,
                   [valid |-> TRUE, collection |-> sheet.mongo_collection,
                    pipeline |-> sheet.mongo_pipeline, limit |-> ReportRowLimit],
                   cfg.MONGO_AVAILABLE, ans)
    ELSE Returned(EmptyDF, <<>>, <<>>)

\* The sheets from the i-th on, written in order; the first that fails ends
\* the report.  n counts the rows written so far.
RECURSIVE WriteSheets(_, _, _, _, _, _)
WriteSheets(user_id, spec, cfg, answers, i, acc) ==
    IF i > Len(spec.sheets)
    THEN [kind |-> "ok", status |-> 200, detail |-> "",
          payload |-> [fmt |-> "xlsx", name |-> spec.title, n |-> acc.n],
          queries |-> acc.queries, mock |-> acc.mock]
    ELSE LET r == SheetFrame(user_id, spec.sheets[i], cfg, answers[i])
             queries == acc.queries \o r.queries
             mock == acc.mock \o r.mock
         IN  IF r.kind # "ok"
             THEN [kind |-> r.kind, status |-> r.status, detail |-> r.detail,
                   payload |-> [fmt |-> "", name |-> "", n |-> 0],
                   queries |-> queries, mock |-> mock]
             ELSE WriteSheets(user_id, spec, cfg, answers, i + 1,
                              [queries |-> queries, mock |-> mock, n |-> acc.n + Len(r.df.rows)])

build_report(user_id, spec, cfg, answers) ==
    WriteSheets(user_id, spec, cfg, answers, 1, [queries |-> <<>>, mock |-> <<>>, n |-> 0])

\* ---------------------------------------------------------------- storage.py

\* The ids os.urandom(12) can yield.
ArtifactIds == 1..IdSpace

ArtifactRecord(payload, mime, filename) == [bytes |-> payload, mime |-> mime, filename |-> filename]

\* ARTIFACTS[artifact_id] = {...}: the store with the record put under the id.
MutStoreKeepFirst(store, artifact_id, record) ==
    IF artifact_id \in DOMAIN store THEN store
    ELSE [x \in DOMAIN store \cup {artifact_id} |-> IF x = artifact_id THEN record ELSE store[x]]

MutStoreOnly(store, artifact_id, record) == [x \in {artifact_id} |-> record]

StoreArtifact(store, artifact_id, record) ==
    [x \in DOMAIN store \cup {artifact_id} |-> IF x = artifact_id THEN record ELSE store[x]]

\* get_artifact_bytes: the record under the id, or 404.
get_artifact_bytes(store, artifact_id) ==
    IF artifact_id \in DOMAIN store
    THEN [status |-> 200, item |-> store[artifact_id]]
    ELSE [status |-> 404, item |-> ArtifactRecord(Payload("", "", EmptyDF), "", "")]

XlsxMime == "application/vnd.openxmlformats-officedocument.spreadsheetml.sheet"

\* --------------------------------------------------------------- executor.py

\* MetabaseQuerySpec / MetabaseEmbedSpec (**args)
MetabaseQuerySpec(args) ==
    [valid |-> Has(args, "card_id"), card_id |-> Get(args, "card_id", 0)]
MetabaseEmbedSpec(args) ==
    [valid |-> Has(args, "resource_type") /\ Has(args, "resource_id"),
     resource_type |-> Get(args, "resource_type", ""),
     resource_id |-> Get(args, "resource_id", 0),
     theme |-> Get(args, "theme", "light")]

NoSave == [does |-> FALSE, record |-> ArtifactRecord(Payload("", "", EmptyDF), "", ""), key |-> ""]
SaveAs(payload, mime, filename, key) ==
    [does |-> TRUE, record |-> ArtifactRecord(payload, mime, filename), key |-> key]

\* What one branch of execute_plan's dispatch does, up to the save it asks for:
\* kind "ok", or the exception it raises ("validation": pydantic's
\* ValidationError; "http": an HTTPException; "exc": any other exception).
Done ==
    [kind |-> "ok", status |-> 200, detail |-> "", setdf |-> FALSE, df |-> NoneDF, save |-> NoSave,
     embed |-> <<>>, filed |-> <<>>, queries |-> <<>>, mock |-> <<>>, sent |-> <<>>]
Throws(kind, status, detail) == [Done EXCEPT !.kind = kind, !.status = status, !.detail = detail]

NoSwaggerAnswer == [raises |-> FALSE, status |-> 200, body |-> ""]

\* The answers the collaborators behind a tool call can give, one per request
\* the call can issue.
AnswerSets(tc, cfg) ==
    IF tc.tool = "mongo.read" THEN <<IF cfg.MONGO_AVAILABLE THEN DbAnswers ELSE {NoAnswer}>>
    ELSE IF tc.tool = "metabase.query" THEN <<IF cfg.site THEN MetabaseAnswers ELSE {NoAnswer}>>
    ELSE IF tc.tool \in WriteToolNames THEN <<IF cfg.swagger THEN SwaggerAnswers ELSE {NoSwaggerAnswer}>>
    ELSE IF tc.tool = "report.build" /\ ReportSpec(tc.args).valid
    THEN [i \in 1..Len(tc.args.sheets) |->
            LET sh == tc.args.sheets[i]
            IN  IF (sh.source = "mongo" /\ ~cfg.MONGO_AVAILABLE) \/ (sh.source = "metabase_card" /\ ~cfg.site)
                THEN {NoAnswer} ELSE SheetAnswers(sh)]
    ELSE <<{NoAnswer}>>

Answers(tc, cfg) ==
    LET sets == AnswerSets(tc, cfg)
    IN  {a \in [1..Len(sets) -> UNION Range(sets)] : \A i \in 1..Len(sets) : a[i] \in sets[i]}

\* create_task .. allocate_staff_to_vehicle: _require_swagger, then swagger.call.
WriteCall(tool, swagger, ans) ==
    LET w == WriteTool(tool)
        r == SwaggerCall(w.path, w.method, ans)
        call == <<[path |-> w.path, method |-> w.method]>>
    IN  IF ~swagger THEN Throws("http", 503, "Swagger client not configured")
        ELSE IF r.kind # "ok" THEN [Throws(r.kind, r.status, r.detail) EXCEPT !.sent = call]
        ELSE [Done EXCEPT !.sent = call, !.filed = <<[list |-> w.list, key |-> w.key, out |-> r.out]>>]

\* The if/elif chain of execute_plan, lines 112-190.
ToolBranch(tc, user_id, df_cache, cfg, answers) ==
    LET args == tc.args
        Invalid == Throws("validation", 400, "Validation error")
        FromFrame(r) ==
            IF r.kind = "ok"
            THEN [Done EXCEPT !.setdf = TRUE, !.df = r.df, !.queries = r.queries, !.mock = r.mock]
            ELSE [Throws(r.kind, r.status, r.detail) EXCEPT !.queries = r.queries, !.mock = r.mock]
    IN  IF tc.tool = "mongo.read"
        THEN IF ~MongoReadSpec(args).valid THEN Invalid
             ELSE FromFrame(run_mongo(user_id, MongoReadSpec(args), cfg.MONGO_AVAILABLE, answers[1]))
        ELSE IF tc.tool = "df.op"
        THEN IF ~DataframeOpSpec(args).valid THEN Invalid
             ELSE FromFrame(dataframe_ops(df_cache, DataframeOpSpec(args)))
        ELSE IF tc.tool = "plot"
        THEN IF ~PlotSpec(args).valid THEN Invalid
             ELSE LET r == make_plot(df_cache, PlotSpec(args))
                  IN  IF r.kind # "ok" THEN Throws(r.kind, r.status, r.detail)
                      ELSE [Done EXCEPT !.save = SaveAs(r.payload, "image/png", "chart.png", "plot_png")]
        ELSE IF tc.tool = "excel"
        THEN LET frame == OrEmptyFrame(df_cache)
             IN  IF frame.raises THEN Throws("exc", 0, "ValueError")
                 ELSE [Done EXCEPT !.save = SaveAs(export_excel(frame.df, ExcelSpec(args)),
                                                   XlsxMime, "report.xlsx", "excel")]
        ELSE IF tc.tool = "metabase.query"
        THEN IF ~MetabaseQuerySpec(args).valid THEN Invalid
             ELSE FromFrame(query_card_dataframe(cfg.site, MetabaseQuerySpec(args).card_id, answers[1]))
        ELSE IF tc.tool = "metabase.embed"
        THEN IF ~MetabaseEmbedSpec(args).valid THEN Invalid
             ELSE LET r == signed_embed_url(cfg.site, cfg.embed_secret, MetabaseEmbedSpec(args))
                  IN  IF r.kind # "ok" THEN Throws(r.kind, r.status, r.detail)
                      ELSE [Done EXCEPT !.embed = <<r.url>>]
        ELSE IF tc.tool \in WriteToolNames
        THEN IF ~WriteSpecValid(tc.tool, args) THEN Invalid
             ELSE WriteCall(tc.tool, cfg.swagger, answers[1])
        ELSE IF tc.tool = "report.build"
        THEN IF ~ReportSpec(args).valid THEN Invalid
             ELSE LET r == build_report(user_id, ReportSpec(args), cfg, answers)
                  IN  IF r.kind # "ok"
                      THEN [Throws(r.kind, r.status, r.detail) EXCEPT !.queries = r.queries, !.mock = r.mock]
                      ELSE [Done EXCEPT !.queries = r.queries, !.mock = r.mock,
                                        !.save = SaveAs(r.payload, XlsxMime, ReportSpec(args).title \o ".xlsx",
                                                        "report")]
        ELSE Throws("http", 400, "Unknown tool")

\* The branch left through an exception: one of the except clauses of
\* execute_plan (lines 191-196) takes over and the loop is abandoned.
MutSwallow(out) == FALSE

Raises(out) == out.kind # "ok"

\* The except clauses of execute_plan, lines 191-196: the HTTPException the
\* caller receives.  tool: the tool name when the detail carries it.
ErrorFor(tc, out) ==
    IF out.kind = "validation" THEN [status |-> 400, detail |-> "Validation error for", tool |-> tc.tool]
    ELSE IF out.kind = "http"
    THEN [status |-> out.status, detail |-> out.detail,
          tool |-> IF out.detail = "Unknown tool" THEN tc.tool ELSE ""]
    ELSE [status |-> 500, detail |-> "Tool execution error in", tool |-> tc.tool]

\* -------------------------------------------------------- calls and plans

Call(tool, args) == [tool |-> tool, args |-> args]

Stage(keys, inner) == [keys |-> keys, inner |-> inner]
WhereStage == Stage({"$where"}, {})
FunctionInAddFields == Stage({"$addFields"}, {"$function"})

NoArgs == [x \in {} |-> x]

ReadLeads == Call("mongo.read", [collection |-> "leads", pipeline |-> <<>>, limit |-> 5000])
ReadLeadsWhere == Call("mongo.read", [collection |-> "leads", pipeline |-> <<WhereStage>>, limit |-> 2])
ReadLeadsFunction ==
    Call("mongo.read", [collection |-> "leads", pipeline |-> <<FunctionInAddFields>>, limit |-> 1])
ReadDealsLastWeek ==
    Call("mongo.read", [collection |-> "leads",
                        pipeline |-> <<Stage({"$match"}, {"$gte"}), Stage({"$group"}, {"$sum"})>>, limit |-> 1000])
ReadCallLogs == Call("mongo.read", [collection |-> "call_logs"])
ReadUsers == Call("mongo.read", [collection |-> "users", pipeline |-> <<>>, limit |-> 10])
ReadUsersWhere == Call("mongo.read", [collection |-> "users", pipeline |-> <<WhereStage>>, limit |-> 1000])
ReadUsersNoLimit == Call("mongo.read", [collection |-> "users", pipeline |-> <<>>, limit |-> 0])
GroupByOwner ==
    Call("df.op", [operation |-> "groupby",
                   params |-> [by |-> << <<"owner">> >>, agg |-> <<[col |-> <<"amount">>, fn |-> "sum"]>>]])
UnknownOp == Call("df.op", [operation |-> "explode", params |-> NoArgs])
SelectNoColumns == Call("df.op", [operation |-> "select", params |-> NoArgs])
PlotBar == Call("plot", [kind |-> "bar", x |-> "owner", y |-> "amount", title |-> "Amount by owner"])
PlotDealsByOwner ==
    Call("plot", [kind |-> "bar", x |-> "_id", y |-> "count", title |-> "Deals Created Last Week by Owner"])
PlotPieNoY == Call("plot", [kind |-> "pie"])
PlotHist == Call("plot", [kind |-> "hist", x |-> "owner", y |-> "amount"])
ExcelReport == Call("excel", [sheet_name |-> "Report", index |-> FALSE, autofit |-> TRUE])
ExcelSummary == Call("excel", [sheet_name |-> "Summary", index |-> FALSE, autofit |-> TRUE])
QueryCard == Call("metabase.query", [card_id |-> 1, params |-> NoArgs])
EmbedDashboard ==
    Call("metabase.embed", [resource_type |-> "dashboard", resource_id |-> 1, params |-> NoArgs, theme |-> "light"])
EmbedQuestion == Call("metabase.embed", [resource_type |-> "question", resource_id |-> 2])
CreateTask == Call("crm.create_task", [title |-> "Call Acme"])
UpdateLead == Call("crm.update_lead", [lead_id |-> "lead_001", fields |-> [status |-> "Won"]])
CreateNoteNoBody == Call("crm.create_note", [lead_id |-> "lead_001"])
TripsPaged == Call("transport.trips_paged", NoArgs)
BuildReport ==
    Call("report.build",
         [title |-> "Pipeline",
          sheets |-> <<Sheet("Leads", "mongo", 0, "leads", <<>>), Sheet("Blank", "none", 0, "", <<>>)>>])
BuildReportUsers ==
    Call("report.build",
         [title |-> "Users",
          sheets |-> <<Sheet("Leads", "mongo", 0, "leads", <<>>),
                       Sheet("Users", "mongo", 0, "users", <<WhereStage>>)>>])
UnknownTool == Call("email.send", NoArgs)

ToolCalls ==
    {SelectNoColumns, ReadLeads, ReadLeadsWhere, ReadLeadsFunction, ReadCallLogs, ReadUsers, ReadUsersWhere, ReadUsersNoLimit,
     GroupByOwner, UnknownOp, PlotBar, PlotPieNoY, PlotHist, ExcelReport, QueryCard, EmbedDashboard,
     CreateTask, CreateNoteNoBody, TripsPaged, BuildReport, BuildReportUsers, UnknownTool}

\* Plan: final_message is <<>> for None, <<s>> for the string s.
Plan(intent, tool_calls, final_message) ==
    [intent |-> intent, tool_calls |-> tool_calls, final_message |-> final_message]

\* The plans LLMClient.plan (json_stub) returns, by their tool calls.
PlanWeeklyDealsChart ==
    Plan("weekly_deals_chart", <<ReadDealsLastWeek, PlotDealsByOwner>>,
         <<"Generated a bar chart showing deals created last week by owner.">>)
PlanAnalyticsExport ==
    Plan("analytics_export", <<ReadLeads, GroupByOwner, ExcelReport>>, <<"Exported Excel with totals by owner.">>)
PlanReportBuild ==
    Plan("report_build", <<QueryCard, GroupByOwner, ExcelSummary>>, <<"Built a simple report and exported Excel.">>)
PlanMetabaseEmbed ==
    Plan("metabase_embed", <<EmbedDashboard>>, <<"Generated an embed URL for your Metabase dashboard.">>)
PlanNoop == Plan("noop", <<>>, <<"No tools executed. Configure LLM_PROVIDER or refine your prompt.">>)

PlannerPlans == {PlanWeeklyDealsChart, PlanAnalyticsExport, PlanReportBuild, PlanMetabaseEmbed, PlanNoop}

\* A plan that writes to the CRM, builds a report and then names a tool the
\* executor does not know.
PlanTaskReportUnknown == Plan("llm", <<CreateTask, BuildReport, UnknownTool>>, <<>>)

\* A plan that embeds two resources and writes twice to the CRM, with a read
\* of the transport trips in between.
PlanEmbedsAndWrites ==
    Plan("llm", <<EmbedQuestion, UpdateLead, TripsPaged, EmbedDashboard, CreateTask>>, <<>>)

\* A plan whose final_message is the empty string.
PlanEmptyMessage == Plan("llm", <<EmbedDashboard>>, <<"">>)

\* The sequences over S of length at most n.
RECURSIVE SeqsUpTo(_, _)
SeqsUpTo(S, n) ==
    IF n = 0 THEN {<<>>}
    ELSE LET shorter == SeqsUpTo(S, n - 1)
         IN  shorter \cup {Append(q, x) : q \in {r \in shorter : Len(r) = n - 1}, x \in S}

\* The plans an execution is started with: the planner's, and every plan of
\* at most MaxPlanLen calls (as the openai provider can return).
Plans ==
    PlannerPlans \cup {PlanTaskReportUnknown, PlanEmbedsAndWrites, PlanEmptyMessage}
    \cup {Plan("llm", calls, <<>>) : calls \in SeqsUpTo(ToolCalls, MaxPlanLen)}

\* The deployments: which collaborators the environment configures.
Deployment(mongo, swagger, site, secret) ==
    [MONGO_AVAILABLE |-> mongo, swagger |-> swagger, site |-> site, embed_secret |-> secret]
Deployments ==
    {Deployment(FALSE, FALSE, FALSE, FALSE), Deployment(TRUE, TRUE, TRUE, TRUE),
     Deployment(TRUE, FALSE, TRUE, FALSE), Deployment(FALSE, TRUE, FALSE, TRUE)}

\* ------------------------------------------------------------------- state

Threads == {"t1", "t2"}

VARIABLES
    cfg,         \* the deployment: MONGO_AVAILABLE, swagger, metabase site and secret
    ARTIFACTS,   \* storage.ARTIFACTS: artifact id -> record
    pc,          \* per request thread: idle, loop, dispatch, save, completed, aborted
    user,        \* execute_plan's user_id
    plan,        \* execute_plan's plan
    audit,       \* execute_plan's audit list
    df_cache,    \* execute_plan's df_cache
    response,    \* execute_plan's response dict
    pending,     \* the save_artifact call in progress: its id and its record
    result,      \* what the caller of execute_plan receives
    dispatched,  \* history: the calls handed to a handler, by index, and whether they returned
    issued,      \* history: the aggregates issued to the database, the mock reads
    sent,        \* history: the requests issued to the CRM backend
    saves,       \* history: the ids save_artifact returned, with their records
    sessions,    \* memory.MEMORY.sessions: session id -> list object
    lists,       \* the list objects that hold the session logs
    chat,        \* per request thread: chat's request and its history reference
    appended,    \* history: the entries each thread appended, with their session
    chats,       \* history: the chats that have ended, whether with a reply
    deletes,     \* history: the sessions deleted, in order
    lengths,     \* autofit: the lengths of a column's stringified values
    width,       \* autofit: the width set for the column
    planned,     \* history: the plan-only requests answered, with the messages the planner saw
    agent,       \* the ReActAgent: its fields and the locals of run
    runs,        \* history: what each run of the agent returned or raised
    SESSION_METADATA, \* memory.SESSION_METADATA: session id -> the session's metadata
    chatted,     \* history: the chats begun, as pairs of session and user
    fetched,     \* history: what each read of a session's messages returned or raised
    SAVED_REPORTS, \* memory.SAVED_REPORTS: report id -> the saved report
    reported     \* history: the last operation on the saved reports and its answer

vars == <<cfg, ARTIFACTS, pc, user, plan, audit, df_cache, response, pending, result,
          dispatched, issued, sent, saves, sessions, lists, chat, appended, chats, deletes,
          lengths, width, planned, agent, runs, SESSION_METADATA, chatted, fetched,
          SAVED_REPORTS, reported>>

\* The variables of execute_plan and of the artifact store, of the chat
\* endpoint, and of the remaining operations.
execVars == <<cfg, ARTIFACTS, pc, user, plan, audit, df_cache, response, pending, result,
              dispatched, issued, sent, saves>>
chatVars == <<sessions, lists, chat, appended, chats, deletes>>
sessionVars == <<SESSION_METADATA, chatted, fetched>>
reportVars == <<SAVED_REPORTS, reported>>
laterVars == <<lengths, width, planned, agent, runs, sessionVars, reportVars>>

EmptyMap == [x \in {} |-> x]
SetKey(f, key, v) == [x \in DOMAIN f \cup {key} |-> IF x = key THEN v ELSE f[x]]

NewResponse ==
    [artifacts |-> EmptyMap, preview_rows |-> <<>>, embed_urls |-> <<>>, writes |-> <<>>, reads |-> <<>>]
NoPending == [id |-> 0, record |-> NoSave.record, key |-> ""]
NoResult ==
    [kind |-> "none", status |-> 0, detail |-> "", tool |-> "", message |-> "",
     response |-> NewResponse, audit |-> <<>>]
NoIssued == [queries |-> <<>>, mock |-> <<>>]
NoReported ==
    [op |-> "none", report_id |-> 0, user_id |-> "", status |-> 0, artifact_id |-> 0,
     body |-> [id |-> 0, created_by |-> ""]]
NoChat == [session_id |-> "", user_id |-> "", message |-> "", history |-> 0]

Init ==
    /\ cfg \in Deployments
    /\ ARTIFACTS = EmptyMap
    /\ pc = [t \in Threads |-> "idle"]
    /\ user = [t \in Threads |-> ""]
    /\ plan = [t \in Threads |-> Plan("", <<>>, <<>>)]
    /\ audit = [t \in Threads |-> <<>>]
    /\ df_cache = [t \in Threads |-> NoneDF]
    /\ response = [t \in Threads |-> NewResponse]
    /\ pending = [t \in Threads |-> NoPending]
    /\ result = [t \in Threads |-> NoResult]
    /\ dispatched = [t \in Threads |-> <<>>]
    /\ issued = [t \in Threads |-> NoIssued]
    /\ sent = [t \in Threads |-> <<>>]
    /\ saves = [t \in Threads |-> <<>>]
    /\ sessions = EmptyMap
    /\ lists = <<>>
    /\ chat = [t \in Threads |-> NoChat]
    /\ appended = [t \in Threads |-> <<>>]
    /\ chats = <<>>
    /\ deletes = <<>>
    /\ lengths = <<>>
    /\ width = 0
    /\ planned = <<>>
    /\ agent = [at |-> "idle", user_input |-> "", steps |-> <<>>,
                current_df |-> [is |-> "frame", none |-> TRUE, n |-> 0, error |-> FALSE], iteration |-> 0,
                final_result |-> [is |-> "frame", none |-> TRUE, n |-> 0, error |-> FALSE]]
    /\ runs = <<>>
    /\ SESSION_METADATA = EmptyMap
    /\ chatted = {}
    /\ fetched = <<>>
    /\ SAVED_REPORTS = EmptyMap
    /\ reported = NoReported

\* What the caller of execute_plan receives when a call raises, given the
\* response and the audit log built so far: the HTTPException alone
\* (lines 191-196 raise; the return of line 200 is not reached).
MutPartialResponse(tc, out, resp, aud) ==
    [NoResult EXCEPT !.kind = "error", !.status = ErrorFor(tc, out).status, !.detail = ErrorFor(tc, out).detail,
                     !.tool = ErrorFor(tc, out).tool, !.response = resp, !.audit = aud]

Failure(tc, out, resp, aud) ==
    [NoResult EXCEPT !.kind = "error", !.status = ErrorFor(tc, out).status, !.detail = ErrorFor(tc, out).detail,
                     !.tool = ErrorFor(tc, out).tool]

\* execute_plan is entered: lines 104-107.
Start(t, user_id, p) ==
    /\ pc[t] = "idle"
    /\ pc' = [pc EXCEPT ![t] = "loop"]
    /\ user' = [user EXCEPT ![t] = user_id]
    /\ plan' = [plan EXCEPT ![t] = p]
    /\ UNCHANGED <<cfg, ARTIFACTS, audit, df_cache, response, pending, result, dispatched, issued, sent, saves,
                   sessions, lists, chat, appended, chats, deletes, laterVars>>

\* The for loop takes the next call and appends its audit entry: lines 109-110.
NextCall(t) ==
    /\ pc[t] = "loop"
    /\ Len(audit[t]) < Len(plan[t].tool_calls)
    /\ LET tc == plan[t].tool_calls[Len(audit[t]) + 1]
       IN  audit' = [audit EXCEPT ![t] = Append(@, [tool |-> tc.tool, args |-> tc.args])]
    /\ pc' = [pc EXCEPT ![t] = "dispatch"]
    /\ UNCHANGED <<cfg, ARTIFACTS, user, plan, df_cache, response, pending, result, dispatched, issued, sent, saves,
                   sessions, lists, chat, appended, chats, deletes, laterVars>>

MutFiledClearsPreview(resp, out) ==
    [resp EXCEPT
       !.preview_rows = IF out.setdf THEN Preview(out.df) ELSE <<>>,
       !.embed_urls = @ \o out.embed,
       !.writes = @ \o SelectSeq(out.filed, LAMBDA f : f.list = "writes"),
       !.reads = @ \o SelectSeq(out.filed, LAMBDA f : f.list = "reads")]

MutFiledFront(resp, out) ==
    [resp EXCEPT
       !.preview_rows = IF out.setdf THEN Preview(out.df) ELSE @,
       !.embed_urls = out.embed \o @,
       !.writes = SelectSeq(out.filed, LAMBDA f : f.list = "writes") \o @,
       !.reads = SelectSeq(out.filed, LAMBDA f : f.list = "reads") \o @]

\* response after a branch that returned: lines 115, 119, 137, 141, 144-177.
Filed(resp, out) ==
    [resp EXCEPT
       !.preview_rows = IF out.setdf THEN Preview(out.df) ELSE @,
       !.embed_urls = @ \o out.embed,
       !.writes = @ \o SelectSeq(out.filed, LAMBDA f : f.list = "writes"),
       !.reads = @ \o SelectSeq(out.filed, LAMBDA f : f.list = "reads")]

\* What the branch's outcome `out` does to the execution: the except clauses
\* (lines 191-196) when it raised, df_cache and response otherwise, and the
\* save_artifact call it asks for, with the id the call draws.
Outcome(t, tc, out, artifact_id) ==
    /\ out.save.does \/ artifact_id = 1
    /\ dispatched' = [dispatched EXCEPT ![t] = Append(@, [index |-> Len(audit[t]), ok |-> out.kind = "ok"])]
    /\ issued' = [issued EXCEPT ![t] = [queries |-> @.queries \o out.queries, mock |-> @.mock \o out.mock]]
    /\ sent' = [sent EXCEPT ![t] = @ \o out.sent]
    /\ IF Raises(out)
       THEN /\ pc' = [pc EXCEPT ![t] = "aborted"]
            /\ result' = [result EXCEPT ![t] = Failure(tc, out, response[t], audit[t])]
            /\ UNCHANGED <<df_cache, response, pending>>
       ELSE /\ df_cache' = [df_cache EXCEPT ![t] = IF out.setdf THEN out.df ELSE @]
            /\ response' = [response EXCEPT ![t] = Filed(@, out)]
            /\ pending' = [pending EXCEPT ![t] =
                  IF out.save.does
                  THEN [id |-> artifact_id, record |-> out.save.record, key |-> out.save.key]
                  ELSE NoPending]
            /\ pc' = [pc EXCEPT ![t] = IF out.save.does THEN "save" ELSE "loop"]
            /\ UNCHANGED result

\* The call is dispatched: lines 111-196, up to the id save_artifact draws.
Dispatch(t) ==
    /\ pc[t] = "dispatch"
    /\ \E answers \in Answers(plan[t].tool_calls[Len(audit[t])], cfg), artifact_id \in ArtifactIds :
          Outcome(t, plan[t].tool_calls[Len(audit[t])],
                  ToolBranch(plan[t].tool_calls[Len(audit[t])], user[t], df_cache[t], cfg, answers),
                  artifact_id)
    /\ UNCHANGED <<cfg, ARTIFACTS, user, plan, audit, saves,
                   sessions, lists, chat, appended, chats, deletes, laterVars>>

\* save_artifact stores the record and returns the id; the response gets the
\* artifact entry: storage.py line 12, executor.py lines 124, 133, 188.
SaveArtifact(t) ==
    /\ pc[t] = "save"
    /\ ARTIFACTS' = StoreArtifact(ARTIFACTS, pending[t].id, pending[t].record)
    /\ saves' = [saves EXCEPT ![t] = Append(@, [id |-> pending[t].id, record |-> pending[t].record])]
    /\ response' = [response EXCEPT ![t].artifacts =
          SetKey(@, pending[t].key,
                 [artifact_id |-> pending[t].id, download_url |-> <<"/artifacts/", pending[t].id>>])]
    /\ pending' = [pending EXCEPT ![t] = NoPending]
    /\ pc' = [pc EXCEPT ![t] = "loop"]
    /\ UNCHANGED <<cfg, user, plan, audit, df_cache, result, dispatched, issued, sent,
                   sessions, lists, chat, appended, chats, deletes, laterVars>>

MutMessageStrict(p) == IF p.final_message = <<>> THEN "Done." ELSE p.final_message[1]

\* plan.final_message or "Done."
MessageOf(p) ==
    IF p.final_message = <<>> \/ p.final_message = <<"">> THEN "Done." ELSE p.final_message[1]

\* The loop is over: lines 198-200.
Complete(t) ==
    /\ pc[t] = "loop"
    /\ Len(audit[t]) = Len(plan[t].tool_calls)
    /\ result' = [result EXCEPT ![t] =
          [NoResult EXCEPT !.kind = "response", !.status = 200, !.message = MessageOf(plan[t]),
                           !.response = response[t], !.audit = audit[t]]]
    /\ pc' = [pc EXCEPT ![t] = "completed"]
    /\ UNCHANGED <<cfg, ARTIFACTS, user, plan, audit, df_cache, response, pending, dispatched, issued, sent, saves,
                   sessions, lists, chat, appended, chats, deletes, laterVars>>

\* One request, from the start of the process to its answer.
Next ==
    \/ \E user_id \in UserIds, p \in Plans : Start("t1", user_id, p)
    \/ NextCall("t1")
    \/ Dispatch("t1")
    \/ SaveArtifact("t1")
    \/ Complete("t1")

Spec == Init /\ [][Next]_vars

\* Two requests in parallel (FastAPI runs the endpoints in a thread pool), in
\* the default environment, with plans over the calls that read the mock
\* leads and save artifacts.
StoreCalls == {ReadLeads, PlotBar, ExcelReport, BuildReport}
StorePlans == {Plan("llm", calls, <<>>) : calls \in SeqsUpTo(StoreCalls, MaxPlanLen)}

InitConc == Init /\ cfg = Deployment(FALSE, FALSE, FALSE, FALSE)

NextConc ==
    \E t \in Threads :
        \/ \E p \in StorePlans : Start(t, "alice", p)
        \/ NextCall(t)
        \/ Dispatch(t)
        \/ SaveArtifact(t)
        \/ Complete(t)

SpecConc == InitConc /\ [][NextConc]_vars

\* ------------------------------------------- memory.py, core_router.py: chat

SessionIds == {"s1", "s2"}
Messages == {"hello", "metabase dashboard", "export to excel", "deals created last week by owner chart"}

\* The chats started and the sessions deleted in one behaviour.
MaxChats == 2
MaxDeletes == 1

Entry(role, content) == [role |-> role, content |-> content]

\* LLMClient.plan with the json_stub provider: the plan is chosen by the
\* keywords found in the lower-cased content of the last message, in the order
\* of the tests of lines 106, 116 and 128; the replies of these plans are
\* contents too, and "built" does not contain "build".
LLMClient_plan(messages) ==
    LET user_msg == messages[Len(messages)].content
    IN  IF user_msg \in {"deals created last week by owner chart",
                          "Generated a bar chart showing deals created last week by owner."}
        THEN PlanWeeklyDealsChart
        ELSE IF user_msg \in {"metabase dashboard", "Generated an embed URL for your Metabase dashboard."}
        THEN PlanMetabaseEmbed
        ELSE IF user_msg = "build report" THEN PlanReportBuild
        ELSE IF user_msg \in {"export to excel", "Exported Excel with totals by owner.",
                              "Built a simple report and exported Excel."}
        THEN PlanAnalyticsExport
        ELSE PlanNoop

\* self.sessions.setdefault(session_id, []): the list object of the session,
\* a new empty one when the session has none.  store: session id -> list
\* object; heap: the list objects.
MutSetdefaultFresh(store, heap, session_id) ==
    [sessions |-> SetKey(store, session_id, Len(heap) + 1), lists |-> Append(heap, <<>>),
     ref |-> Len(heap) + 1]

setdefault(store, heap, session_id) ==
    IF session_id \in DOMAIN store
    THEN [sessions |-> store, lists |-> heap, ref |-> store[session_id]]
    ELSE [sessions |-> SetKey(store, session_id, Len(heap) + 1), lists |-> Append(heap, <<>>),
          ref |-> Len(heap) + 1]

\* list.append on the list object ref.
MutListReplace(heap, ref, entry) == [heap EXCEPT ![ref] = <<entry>>]

list_append(heap, ref, entry) == [heap EXCEPT ![ref] = Append(@, entry)]

\* chat, line 112: history = MEMORY.get(req.session_id).
ChatBegin(t, session_id, user_id, message) ==
    /\ pc[t] = "idle"
    /\ Len(chats) + Cardinality({u \in Threads : pc[u] # "idle"}) < MaxChats
    /\ sessions' = setdefault(sessions, lists, session_id).sessions
    /\ lists' = setdefault(sessions, lists, session_id).lists
    /\ chat' = [chat EXCEPT ![t] = [session_id |-> session_id, user_id |-> user_id, message |-> message,
                                    history |-> setdefault(sessions, lists, session_id).ref]]
    /\ pc' = [pc EXCEPT ![t] = "chat_append"]
    /\ UNCHANGED <<cfg, ARTIFACTS, user, plan, audit, df_cache, response, pending, result, dispatched, issued,
                   sent, saves, appended, chats, deletes, lengths, width, planned, agent, runs,
                   SESSION_METADATA, fetched, reportVars>>

ChatGet(t, session_id, user_id, message) ==
    /\ ChatBegin(t, session_id, user_id, message)
    /\ UNCHANGED chatted

\* chat, line 113: history.append({"role": "user", "content": req.message}).
ChatAppendUser(t) ==
    /\ pc[t] = "chat_append"
    /\ lists' = list_append(lists, chat[t].history, Entry("user", chat[t].message))
    /\ appended' = [appended EXCEPT ![t] =
          Append(@, [session_id |-> chat[t].session_id, entry |-> Entry("user", chat[t].message)])]
    /\ pc' = [pc EXCEPT ![t] = "chat_plan"]
    /\ UNCHANGED <<cfg, ARTIFACTS, user, plan, audit, df_cache, response, pending, result, dispatched, issued,
                   sent, saves, sessions, chat, chats, deletes, laterVars>>

\* chat, lines 114-119: the planner reads history, execute_plan is entered.
ChatPlan(t) ==
    /\ pc[t] = "chat_plan"
    /\ plan' = [plan EXCEPT ![t] = LLMClient_plan(lists[chat[t].history])]
    /\ user' = [user EXCEPT ![t] = chat[t].user_id]
    /\ pc' = [pc EXCEPT ![t] = "loop"]
    /\ UNCHANGED <<cfg, ARTIFACTS, audit, df_cache, response, pending, result, dispatched, issued, sent, saves,
                   sessions, lists, chat, appended, chats, deletes, laterVars>>

\* chat, line 121, MEMORY.append: the setdefault of memory.py line 14.
ChatReplyGet(t) ==
    /\ pc[t] = "completed"
    /\ chat[t].session_id # ""
    /\ sessions' = setdefault(sessions, lists, chat[t].session_id).sessions
    /\ lists' = setdefault(sessions, lists, chat[t].session_id).lists
    /\ chat' = [chat EXCEPT ![t].history = setdefault(sessions, lists, chat[t].session_id).ref]
    /\ pc' = [pc EXCEPT ![t] = "reply_append"]
    /\ UNCHANGED <<cfg, ARTIFACTS, user, plan, audit, df_cache, response, pending, result, dispatched, issued,
                   sent, saves, appended, chats, deletes, laterVars>>

\* The endpoint is left: the locals of chat and of execute_plan are gone.
Leave(t, ok) ==
    /\ chats' = Append(chats, [session_id |-> chat[t].session_id, ok |-> ok])
    /\ chat' = [chat EXCEPT ![t] = NoChat]
    /\ pc' = [pc EXCEPT ![t] = "idle"]
    /\ user' = [user EXCEPT ![t] = ""]
    /\ plan' = [plan EXCEPT ![t] = Plan("", <<>>, <<>>)]
    /\ audit' = [audit EXCEPT ![t] = <<>>]
    /\ df_cache' = [df_cache EXCEPT ![t] = NoneDF]
    /\ response' = [response EXCEPT ![t] = NewResponse]
    /\ pending' = [pending EXCEPT ![t] = NoPending]
    /\ result' = [result EXCEPT ![t] = NoResult]
    /\ dispatched' = [dispatched EXCEPT ![t] = <<>>]
    /\ issued' = [issued EXCEPT ![t] = NoIssued]
    /\ sent' = [sent EXCEPT ![t] = <<>>]
    /\ saves' = [saves EXCEPT ![t] = <<>>]

\* chat, line 121, MEMORY.append: the append of memory.py line 14, then the
\* return of lines 122-131.
ChatReplyAppend(t) ==
    /\ pc[t] = "reply_append"
    /\ lists' = list_append(lists, chat[t].history, Entry("assistant", result[t].message))
    /\ appended' = [appended EXCEPT ![t] =
          Append(@, [session_id |-> chat[t].session_id, entry |-> Entry("assistant", result[t].message)])]
    /\ Leave(t, TRUE)
    /\ UNCHANGED <<cfg, ARTIFACTS, sessions, deletes, laterVars>>

\* execute_plan raised: the HTTPException leaves chat at line 119, and line
\* 121 is not reached.
ChatFail(t) ==
    /\ pc[t] = "aborted"
    /\ chat[t].session_id # ""
    /\ Leave(t, FALSE)
    /\ UNCHANGED <<cfg, ARTIFACTS, sessions, lists, appended, deletes, laterVars>>

\* delete_session_logic for the admin user (a chat records no metadata, so
\* every other user is refused with 403): MEMORY.sessions.pop(session_id, None)
\* and SESSION_METADATA.pop(session_id, None).
DeleteSession(session_id) ==
    /\ Len(deletes) < MaxDeletes
    /\ sessions' = [s \in DOMAIN sessions \ {session_id} |-> sessions[s]]
    /\ SESSION_METADATA' = [s \in DOMAIN SESSION_METADATA \ {session_id} |-> SESSION_METADATA[s]]
    /\ deletes' = Append(deletes, session_id)
    /\ UNCHANGED <<cfg, ARTIFACTS, pc, user, plan, audit, df_cache, response, pending, result, dispatched, issued,
                   sent, saves, lists, chat, appended, chats, lengths, width, planned, agent, runs,
                   chatted, fetched, reportVars>>

\* Chats and deletions of sessions, one request after the other.
NextChat ==
    \/ \E session_id \in SessionIds, user_id \in UserIds, message \in Messages :
          ChatGet("t1", session_id, user_id, message)
    \/ ChatAppendUser("t1")
    \/ ChatPlan("t1")
    \/ NextCall("t1")
    \/ Dispatch("t1")
    \/ SaveArtifact("t1")
    \/ Complete("t1")
    \/ ChatReplyGet("t1")
    \/ ChatReplyAppend("t1")
    \/ ChatFail("t1")
    \/ \E session_id \in SessionIds : pc["t1"] = "idle" /\ DeleteSession(session_id)

SpecChat == Init /\ [][NextChat]_vars

\* Two chats in parallel, in the environment with every collaborator
\* configured.
InitChatConc == Init /\ cfg = Deployment(TRUE, TRUE, TRUE, TRUE)

NextChatConc ==
    \E t \in Threads :
        \/ \E session_id \in SessionIds, message \in Messages : ChatGet(t, session_id, "alice", message)
        \/ ChatAppendUser(t)
        \/ ChatPlan(t)
        \/ NextCall(t)
        \/ Dispatch(t)
        \/ SaveArtifact(t)
        \/ Complete(t)
        \/ ChatReplyGet(t)
        \/ ChatReplyAppend(t)
        \/ ChatFail(t)

SpecChatConc == InitChatConc /\ [][NextChatConc]_vars

\* ------------------------------------------ tools.py, reports.py: autofit

\* The lengths a stringified value can have, and the longest column tried.
LengthValues == {0, 3, 8, 9, 20, 57, 58, 70}
MaxColumn == 3

\* The lengths in ascending order.
SortedLengths(lens) ==
    LET Place(i) == Cardinality({j \in 1..Len(lens) : lens[j] < lens[i] \/ (lens[j] = lens[i] /\ j <= i)})
    IN  [k \in 1..Len(lens) |-> lens[CHOOSE i \in 1..Len(lens) : Place(i) = k]]

\* Series.quantile(0.9) of a non-empty column, times ten: the value at the
\* position 0.9 * (n - 1) of the sorted lengths, interpolated linearly between
\* its two neighbours.
Quantile90Tenths(lens) ==
    LET sorted == SortedLengths(lens)
        lo == (9 * (Len(lens) - 1)) \div 10
        tenths == (9 * (Len(lens) - 1)) % 10
    IN  IF tenths = 0 THEN 10 * sorted[lo + 1]
        ELSE 10 * sorted[lo + 1] + tenths * (sorted[lo + 2] - sorted[lo + 1])

MutWidthCeil(lens) ==
    LET q == (Quantile90Tenths(lens) + 9) \div 10 + 3
    IN  IF q < 10 THEN 10 ELSE IF q > 60 THEN 60 ELSE q

\* max(10, min(60, int(q90) + 3)): int() drops the fraction.
AutofitWidth(lens) ==
    LET q == Quantile90Tenths(lens) \div 10 + 3
    IN  IF q < 10 THEN 10 ELSE IF q > 60 THEN 60 ELSE q

\* The autofit loop body for one column of a non-empty relation:
\* ws.set_column(i, i, width).
set_column(lens) ==
    /\ lengths' = lens
    /\ width' = AutofitWidth(lens)
    /\ UNCHANGED <<execVars, chatVars, planned, agent, runs, sessionVars, reportVars>>

NextAutofit == \E n \in 1..MaxColumn : \E lens \in [1..n -> LengthValues] : set_column(lens)

SpecAutofit == Init /\ [][NextAutofit]_vars

\* --------------------------------------------------- plan_api.py: plan only

\* The plan-only requests answered in one behaviour.
MaxPlans == 1

MutPlanOnlyAppends(store, heap, session_id, message) ==
    LET got == setdefault(store, heap, session_id)
        messages == got.lists[got.ref] \o <<Entry("user", message)>>
    IN  [sessions |-> got.sessions, lists |-> list_append(got.lists, got.ref, Entry("user", message)),
         messages |-> messages, plan |-> LLMClient_plan(messages)]

\* plan_only_logic: history = MEMORY.get(session_id); messages is a new list,
\* history + [the user's message]; the plan of client.plan is returned.
plan_only_logic(store, heap, session_id, message) ==
    LET got == setdefault(store, heap, session_id)
        messages == got.lists[got.ref] \o <<Entry("user", message)>>
    IN  [sessions |-> got.sessions, lists |-> got.lists,
         messages |-> messages, plan |-> LLMClient_plan(messages)]

\* POST /plan, served between two chats.
PlanOnly(session_id, user_id, message) ==
    /\ pc["t1"] = "idle"
    /\ Len(planned) < MaxPlans
    /\ sessions' = plan_only_logic(sessions, lists, session_id, message).sessions
    /\ lists' = plan_only_logic(sessions, lists, session_id, message).lists
    /\ planned' = Append(planned, [session_id |-> session_id, message |-> message,
                                    messages |-> plan_only_logic(sessions, lists, session_id, message).messages,
                                    plan |-> plan_only_logic(sessions, lists, session_id, message).plan])
    /\ UNCHANGED <<execVars, chat, appended, chats, deletes, lengths, width, agent, runs, sessionVars, reportVars>>

\* Chats and plan-only requests, one request after the other.
NextPlanOnly ==
    \/ \E session_id \in SessionIds, user_id \in UserIds, message \in Messages :
          ChatGet("t1", session_id, user_id, message)
    \/ ChatAppendUser("t1")
    \/ ChatPlan("t1")
    \/ NextCall("t1")
    \/ Dispatch("t1")
    \/ SaveArtifact("t1")
    \/ Complete("t1")
    \/ ChatReplyGet("t1")
    \/ ChatReplyAppend("t1")
    \/ ChatFail("t1")
    \/ \E session_id \in SessionIds, user_id \in UserIds, message \in Messages :
          PlanOnly(session_id, user_id, message)

\* In the environment with every collaborator configured.
SpecPlanOnly == InitChatConc /\ [][NextPlanOnly]_vars

\* ------------------------------------------------------- react_crm_agent.py

MAX_ITERATIONS == 10
\* The runs of the agent in one behaviour.
MaxRuns == 2

\* The queries of test_react_agent.
TestQueries ==
    {"Show me all qualified leads", "Calculate the total pipeline value", "What's the conversion rate?",
     "Find leads owned by Alice", "Group leads by status", "Calculate average deal size"}

\* user_input.lower(), as the fragments of it that the agent's patterns and
\* substring tests look for, in the order they occur.
Fragments(user_input) ==
    CASE user_input = "Show me all qualified leads" -> <<"show", "qualified", "leads">>
      [] user_input = "Calculate the total pipeline value" -> <<"calculate", "total", "pipeline">>
      [] user_input = "What's the conversion rate?" -> <<"conversion", "rate">>
      [] user_input = "Find leads owned by Alice" -> <<"find", "leads", "by \\w">>
      [] user_input = "Group leads by status" -> <<"group", "leads", "by \\w", "status">>
      [] user_input = "Calculate average deal size" -> <<"calculate", "average", "deal">>
      [] OTHER -> <<>>

\* re.search(first .* second, user_input.lower()) for alternatives first.
Search(user_input, first, second) ==
    LET f == Fragments(user_input)
    IN  \E i \in 1..Len(f) : \E j \in (i + 1)..Len(f) : f[i] \in first /\ f[j] = second

In(user_input, fragment) == fragment \in Range(Fragments(user_input))

\* think: the first pattern of the table that matches decides the reasoning.
think(user_input) ==
    [request |-> user_input,
     reasoning |->
        IF Search(user_input, {"show", "get", "list", "find"}, "leads") THEN "Need to query leads data"
        ELSE IF Search(user_input, {"total", "sum", "count"}, "pipeline") THEN "Need to calculate pipeline metrics"
        ELSE IF Search(user_input, {"group", "aggregate"}, "by \\w") THEN "Need to group data by a field"
        ELSE IF Search(user_input, {"filter", "where"}, "status") THEN "Need to filter by status"
        ELSE IF Search(user_input, {"conversion"}, "rate") THEN "Need to calculate conversion rate"
        ELSE IF Search(user_input, {"average"}, "deal") THEN "Need to calculate average deal size"
        ELSE IF \E w \in {"export", "excel", "csv"} : In(user_input, w) THEN "Need to export data"
        ELSE IF In(user_input, "top \\d") THEN "Need to get top N records"
        ELSE ""]

\* fragment in thought.lower(): the thought quotes the request and ends with
\* the reasoning.
InThought(thought, fragment) ==
    \/ In(thought.request, fragment)
    \/ fragment \in
          (CASE thought.reasoning = "Need to query leads data" -> {"query", "leads", "leads data"}
             [] thought.reasoning = "Need to calculate pipeline metrics" -> {"calculate", "pipeline", "metrics"}
             [] thought.reasoning = "Need to group data by a field" -> {"group", "by \\w"}
             [] thought.reasoning = "Need to filter by status" -> {"filter", "by \\w", "status"}
             [] thought.reasoning = "Need to calculate conversion rate" -> {"calculate", "conversion", "rate"}
             [] thought.reasoning = "Need to calculate average deal size" -> {"calculate", "average", "deal"}
             [] thought.reasoning = "Need to export data" -> {"export"}
             [] thought.reasoning = "Need to get top N records" -> {"get", "top \\d"}
             [] OTHER -> {})

Action(action, action_input) == [action |-> action, action_input |-> action_input]

\* decide_action: the decision tree on the thought and the request.  A branch
\* whose inner tests all fail falls through to the default.
decide_action(thought, user_input, current_df) ==
    LET Default == Action("query_data", [collection |-> "leads", limit |-> 100])
        status == IF In(user_input, "status") /\ \E s \in {"qualified", "proposal", "won", "lost"} : In(user_input, s)
                  THEN {"status"} ELSE {}
        owner == IF In(user_input, "owner \\w") THEN {"owner"} ELSE {}
    IN  IF InThought(thought, "query") \/ InThought(thought, "leads data")
        THEN Action("query_data", [collection |-> "leads", filters |-> status \cup owner, limit |-> 100])
        ELSE IF InThought(thought, "calculate") \/ InThought(thought, "metrics")
        THEN IF In(user_input, "conversion") THEN Action("calculate_metric", [metric |-> "conversion_rate"])
             ELSE IF In(user_input, "average") /\ In(user_input, "deal")
             THEN Action("calculate_metric", [metric |-> "avg_deal_size"])
             ELSE IF In(user_input, "pipeline") \/ In(user_input, "total")
             THEN Action("calculate_metric", [metric |-> "total_pipeline"])
             ELSE Default
        ELSE IF InThought(thought, "group") /\ ~current_df.none
        THEN IF In(user_input, "by \\w")
             THEN Action("dataframe_ops", [operation |-> "groupby"])
             ELSE Default
        ELSE IF InThought(thought, "filter") /\ ~current_df.none
        THEN IF status # {} THEN Action("dataframe_ops", [operation |-> "filter"]) ELSE Default
        ELSE Default

\* A DataFrame by its number of rows, None, a metric dict, an error dict.
Frame(n) == [is |-> "frame", none |-> FALSE, n |-> n, error |-> FALSE]
NoFrame == [is |-> "frame", none |-> TRUE, n |-> 0, error |-> FALSE]
Metric(metric) == [is |-> "dict", none |-> FALSE, n |-> 0, error |-> FALSE]
ErrorDict == [is |-> "dict", none |-> FALSE, n |-> 0, error |-> TRUE]

\* What db[collection].find(query).limit(limit) can answer: documents, none,
\* or a PyMongoError (an empty DataFrame is returned).
FindAnswers == {[raises |-> FALSE, n |-> 2], [raises |-> FALSE, n |-> 0], [raises |-> TRUE, n |-> 0]}

\* A tool call returns a value or raises.
Return(v) == [raised |-> "", value |-> v]
Raise(what) == [raised |-> what, value |-> NoFrame]

\* QueryDataTool.execute: the mock leads (two, none of them matching a filter
\* on a status or an owner the mock data lacks), or the answer of the database.
QueryDataTool(action_input, mongo_available, answer) ==
    IF ~mongo_available
    THEN Return(Frame(IF Get(action_input, "filters", {}) = {} THEN 2 ELSE 0))
    ELSE Return(Frame(IF answer.raises THEN 0 ELSE answer.n))

\* CalculateMetricTool.execute(df, metric).
CalculateMetricTool(df, metric) ==
    IF df.none \/ df.n = 0 THEN Return(ErrorDict) ELSE Return(Metric(metric))

\* DataFrameTool.execute(df, operation, **params).
DataFrameTool(df, operation) ==
    IF df.none \/ df.n = 0 THEN Return(Frame(0)) ELSE Return(df)

\* execute_action: dataframe_ops and calculate_metric get the current
\* DataFrame when there is one; otherwise the tool is called with the action
\* input alone, and a tool whose execute also requires df raises TypeError.
execute_action(action, action_input, current_df, mongo_available, answer) ==
    IF action = "dataframe_ops" /\ ~current_df.none
    THEN DataFrameTool(current_df, action_input.operation)
    ELSE IF action = "calculate_metric" /\ ~current_df.none
    THEN CalculateMetricTool(current_df, action_input.metric)
    ELSE IF action = "query_data" THEN QueryDataTool(action_input, mongo_available, answer)
    ELSE Raise("TypeError")

\* observe: the observation, by the words should_continue looks for in it.
observe(r) ==
    IF r.is = "frame" THEN (IF r.n = 0 THEN "No data found" ELSE "Retrieved records")
    ELSE IF r.error THEN "Error: No data available"
    ELSE "Result"

should_continue(observation, steps) ==
    IF observation = "Error: No data available" THEN FALSE
    ELSE IF observation \in {"Retrieved records", "Result", "No data found"} THEN FALSE
    ELSE Len(steps) < MAX_ITERATIONS

ReActStep(thought, action, action_input, observation) ==
    [thought |-> thought, action |-> action, action_input |-> action_input, observation |-> observation]

\* format_response.
format_response(steps, r) ==
    [raised |-> "", success |-> TRUE, steps |-> steps, iterations |-> Len(steps), data |-> r,
     summary |-> IF steps = <<>> THEN "" ELSE steps[Len(steps)].observation]

NewAgent ==
    [at |-> "idle", user_input |-> "", steps |-> <<>>, current_df |-> NoFrame, iteration |-> 0,
     final_result |-> NoFrame]

\* run, lines 422-427: the agent's fields and the loop's locals are reset.
Run(user_input) ==
    /\ agent.at = "idle"
    /\ Len(runs) < MaxRuns
    /\ agent' = [NewAgent EXCEPT !.at = "loop", !.user_input = user_input]
    /\ UNCHANGED <<execVars, chatVars, lengths, width, planned, runs, sessionVars, reportVars>>

\* run, lines 429-457: one pass of the loop, think, decide, execute, observe,
\* record, and the decision to go on.  An exception of the tool leaves run.
Iterate ==
    /\ agent.at = "loop"
    /\ agent.iteration < MAX_ITERATIONS
    /\ \E answer \in FindAnswers :
          LET thought == think(agent.user_input)
              chosen == decide_action(thought, agent.user_input, agent.current_df)
              got == execute_action(chosen.action, chosen.action_input, agent.current_df,
                                    cfg.MONGO_AVAILABLE, answer)
              observation == observe(got.value)
              steps == Append(agent.steps, ReActStep(thought, chosen.action, chosen.action_input, observation))
              kept == IF chosen.action = "query_data" /\ got.value.is = "frame" THEN got.value
                      ELSE agent.current_df
          IN  IF got.raised # ""
              THEN /\ agent' = [agent EXCEPT !.at = "idle"]
                   /\ runs' = Append(runs, [raised |-> got.raised, success |-> FALSE, steps |-> agent.steps,
                                            iterations |-> Len(agent.steps), data |-> NoFrame, summary |-> ""])
              ELSE /\ agent' = [agent EXCEPT !.steps = steps, !.current_df = kept, !.final_result = got.value,
                                             !.at = IF should_continue(observation, steps) THEN "loop"
                                                    ELSE "format",
                                             !.iteration = IF should_continue(observation, steps) THEN @ + 1
                                                           ELSE @]
                   /\ UNCHANGED runs
    /\ UNCHANGED <<execVars, chatVars, lengths, width, planned, sessionVars, reportVars>>

\* run, line 459: the loop was left by the break or by its condition.
Format ==
    /\ \/ agent.at = "format"
       \/ agent.at = "loop" /\ agent.iteration >= MAX_ITERATIONS
    /\ runs' = Append(runs, format_response(agent.steps, agent.final_result))
    /\ agent' = [agent EXCEPT !.at = "idle"]
    /\ UNCHANGED <<execVars, chatVars, lengths, width, planned, sessionVars, reportVars>>

NextReact ==
    \/ \E user_input \in TestQueries : Run(user_input)
    \/ Iterate
    \/ Format

SpecReact == Init /\ [][NextReact]_vars

\* ------------------------------------------- services.py: session messages

\* The users who read sessions: the users of the chats and the user named
\* admin, the default of the endpoints of core_router.py lines 68-80.
SessionUsers == UserIds \cup {"admin"}

\* The reads of session messages and the chats before them in one behaviour.
MaxFetches == 2
MaxOwners == 1

\* get_session_messages_logic: messages = MEMORY.get(session_id), which creates
\* the session when it is missing; metadata = SESSION_METADATA.get(session_id,
\* {}); 403 when metadata.get("user_id"), None without the key, differs from
\* user_id and user_id is not "admin"; else the log and the metadata.
get_session_messages_logic(store, heap, metadata, session_id, user_id) ==
    LET got == setdefault(store, heap, session_id)
        md == IF session_id \in DOMAIN metadata THEN metadata[session_id] ELSE EmptyMap
        owner == IF "user_id" \in DOMAIN md THEN <<md["user_id"]>> ELSE <<>>
    IN  [sessions |-> got.sessions, lists |-> got.lists,
         out |-> IF owner # <<user_id>> /\ user_id # "admin"
                 THEN [session_id |-> session_id, user_id |-> user_id, status |-> 403,
                       detail |-> "Access denied", messages |-> <<>>, metadata |-> EmptyMap]
                 ELSE [session_id |-> session_id, user_id |-> user_id, status |-> 200,
                       detail |-> "", messages |-> got.lists[got.ref], metadata |-> md]]

\* GET /sessions/{session_id}/messages, served between two chats.
GetSessionMessages(session_id, user_id) ==
    /\ pc["t1"] = "idle"
    /\ Len(fetched) < MaxFetches
    /\ sessions' = get_session_messages_logic(sessions, lists, SESSION_METADATA, session_id, user_id).sessions
    /\ lists' = get_session_messages_logic(sessions, lists, SESSION_METADATA, session_id, user_id).lists
    /\ fetched' = Append(fetched,
          get_session_messages_logic(sessions, lists, SESSION_METADATA, session_id, user_id).out)
    /\ UNCHANGED <<execVars, chat, appended, chats, deletes, lengths, width, planned, agent, runs,
                   SESSION_METADATA, chatted, reportVars>>

\* chat, line 112, with the record of who began a chat on which session.
ChatGetBy(t, session_id, user_id, message) ==
    /\ Cardinality(chatted) < MaxOwners
    /\ ChatBegin(t, session_id, user_id, message)
    /\ chatted' = chatted \cup {<<session_id, user_id>>}

\* Chats and reads of session messages, one request after the other.
NextSessions ==
    \/ \E session_id \in SessionIds, user_id \in SessionUsers, message \in Messages :
          ChatGetBy("t1", session_id, user_id, message)
    \/ ChatAppendUser("t1")
    \/ ChatPlan("t1")
    \/ NextCall("t1")
    \/ Dispatch("t1")
    \/ SaveArtifact("t1")
    \/ Complete("t1")
    \/ ChatReplyGet("t1")
    \/ ChatReplyAppend("t1")
    \/ ChatFail("t1")
    \/ \E session_id \in SessionIds, user_id \in SessionUsers : GetSessionMessages(session_id, user_id)

\* In the environment with every collaborator configured.
SpecSessions == InitChatConc /\ [][NextSessions]_vars

\* -------------------------------------------------- core.py: saved reports

\* The users of the report endpoints: the users of the chats and the user
\* named admin, the default of core_router.py lines 39-65.
ReportUsers == UserIds \cup {"admin"}

\* The ids os.urandom(12) can yield for a report, and the ids a request can
\* name; 0 stands for None in a request body.
ReportIds == 1..IdSpace

\* The bodies of POST /reports: a SavedReport without an id, and one that
\* carries an id and names the admin as its creator.
ReportBodies ==
    {[id |-> 0, name |-> "weekly", spec |-> ReportSpec(BuildReport.args), created_by |-> "manager",
      last_run |-> FALSE],
     [id |-> 1, name |-> "weekly", spec |-> ReportSpec(BuildReport.args), created_by |-> "admin",
      last_run |-> FALSE]}

\* SAVED_REPORTS.get(report_id), then the tests of lines 1190-1193: 404 for a
\* missing report, 403 for a report of another creator unless the user is admin.
MutAccessAnyone(store, report_id, user_id) ==
    IF report_id \notin DOMAIN store THEN 404 ELSE 200

Access(store, report_id, user_id) ==
    IF report_id \notin DOMAIN store THEN 404
    ELSE IF store[report_id].created_by # user_id /\ user_id # "admin" THEN 403
    ELSE 200

\* create_report_logic: the id drawn, report.id and report.created_by
\* overwritten, the report stored under the id.
create_report_logic(store, report, user_id, report_id) ==
    SetKey(store, report_id, [report EXCEPT !.id = report_id, !.created_by = user_id])

\* get_report_logic.
get_report_logic(store, report_id, user_id) == Access(store, report_id, user_id)

\* delete_report_logic: del SAVED_REPORTS[report_id] once access is granted.
delete_report_logic(store, report_id, user_id) ==
    [status |-> Access(store, report_id, user_id),
     store |-> IF Access(store, report_id, user_id) = 200
               THEN [r \in DOMAIN store \ {report_id} |-> store[r]]
               ELSE store]

\* run_report_logic: once access is granted, build_report, save_artifact
\* under the id drawn, last_run set; any exception of these becomes a 500.  xlsx
\* is what build_report gave.
run_report_logic(store, artifacts, report_id, user_id, xlsx, artifact_id) ==
    IF Access(store, report_id, user_id) # 200
    THEN [status |-> Access(store, report_id, user_id), store |-> store, artifacts |-> artifacts,
          artifact_id |-> 0]
    ELSE IF xlsx.kind # "ok"
    THEN [status |-> 500, store |-> store, artifacts |-> artifacts, artifact_id |-> 0]
    ELSE [status |-> 200,
          store |-> [store EXCEPT ![report_id].last_run = TRUE],
          artifacts |-> StoreArtifact(artifacts, artifact_id,
                                      ArtifactRecord(xlsx.payload, XlsxMime, store[report_id].name \o ".xlsx")),
          artifact_id |-> artifact_id]

Reported(op, report_id, user_id, status, artifact_id, body) ==
    [op |-> op, report_id |-> report_id, user_id |-> user_id, status |-> status,
     artifact_id |-> artifact_id, body |-> [id |-> body.id, created_by |-> body.created_by]]

\* POST /reports.
CreateReport(report, user_id) ==
    /\ \E report_id \in ReportIds :
          /\ SAVED_REPORTS' = create_report_logic(SAVED_REPORTS, report, user_id, report_id)
          /\ reported' = Reported("create", report_id, user_id, 200, 0, report)
    /\ UNCHANGED <<execVars, chatVars, lengths, width, planned, agent, runs, sessionVars>>

\* GET /reports/{report_id}.
GetReport(report_id, user_id) ==
    /\ reported' = Reported("get", report_id, user_id, get_report_logic(SAVED_REPORTS, report_id, user_id),
                            0, NoReported.body)
    /\ UNCHANGED <<execVars, chatVars, lengths, width, planned, agent, runs, sessionVars, SAVED_REPORTS>>

\* What run_report_logic's answer `out` does to the stores.
Ran(report_id, user_id, out) ==
    /\ SAVED_REPORTS' = out.store
    /\ ARTIFACTS' = out.artifacts
    /\ reported' = Reported("run", report_id, user_id, out.status, out.artifact_id, NoReported.body)

\* POST /reports/{report_id}/run.
RunReport(report_id, user_id) ==
    /\ IF report_id \in DOMAIN SAVED_REPORTS
       THEN \E answers \in Answers(BuildReport, cfg), artifact_id \in ArtifactIds :
               Ran(report_id, user_id,
                   run_report_logic(SAVED_REPORTS, ARTIFACTS, report_id, user_id,
                                    build_report(user_id, SAVED_REPORTS[report_id].spec, cfg, answers),
                                    artifact_id))
       ELSE Ran(report_id, user_id,
                run_report_logic(SAVED_REPORTS, ARTIFACTS, report_id, user_id, Raised("unreached"), 0))
    /\ UNCHANGED <<cfg, pc, user, plan, audit, df_cache, response, pending, result, dispatched, issued, sent,
                   saves, chatVars, lengths, width, planned, agent, runs, sessionVars>>

\* DELETE /reports/{report_id}.
DeleteReport(report_id, user_id) ==
    /\ SAVED_REPORTS' = delete_report_logic(SAVED_REPORTS, report_id, user_id).store
    /\ reported' = Reported("delete", report_id, user_id,
                            delete_report_logic(SAVED_REPORTS, report_id, user_id).status, 0, NoReported.body)
    /\ UNCHANGED <<execVars, chatVars, lengths, width, planned, agent, runs, sessionVars>>

\* The operations on saved reports, one request after the other.
NextReports ==
    \/ \E report \in ReportBodies, user_id \in ReportUsers : CreateReport(report, user_id)
    \/ \E report_id \in ReportIds, user_id \in ReportUsers : GetReport(report_id, user_id)
    \/ \E report_id \in ReportIds, user_id \in ReportUsers : RunReport(report_id, user_id)
    \/ \E report_id \in ReportIds, user_id \in ReportUsers : DeleteReport(report_id, user_id)

\* In the environment without a database, where the sheets read the mock data.
SpecReports == InitConc /\ [][NextReports]_vars

\* ------------------------------------------------- tools.py: reads alone

\* The plans of one mongo.read call.
ReadPlans == {Plan("llm", <<tc>>, <<>>) : tc \in {c \in ToolCalls \cup {ReadDealsLastWeek} : c.tool = "mongo.read"}}

\* One request whose plan is a single read, from the start of the process to
\* its answer; no call of such a plan saves an artifact.
NextRead ==
    \/ \E user_id \in UserIds, p \in ReadPlans : Start("t1", user_id, p)
    \/ NextCall("t1")
    \/ Dispatch("t1")
    \/ Complete("t1")

SpecRead == Init /\ [][NextRead]_vars

\* ------------------------------------------------------------------ claims

\* C1: the calls dispatched are a prefix of plan.tool_calls in plan order, each
\* dispatched only after the one before it returned; the audit log is that
\* prefix, the entry of a call appended before the call is dispatched.  When
\* call k is the first to fail the log has k entries and nothing after k is
\* dispatched; when none fails the execution completes with len(tool_calls)
\* entries.
AuditIsDispatchedPrefix ==
    LET t == "t1"
        calls == plan[t].tool_calls
        d == dispatched[t]
    IN  /\ Len(audit[t]) <= Len(calls)
        /\ \A j \in 1..Len(audit[t]) : audit[t][j] = [tool |-> calls[j].tool, args |-> calls[j].args]
        /\ \A j \in 1..Len(d) : d[j].index = j /\ (j < Len(d) => d[j].ok)
        /\ Len(audit[t]) = Len(d) + (IF pc[t] = "dispatch" THEN 1 ELSE 0)
        /\ (pc[t] = "aborted") <=> (d # <<>> /\ ~d[Len(d)].ok)
        /\ pc[t] = "completed" => Len(audit[t]) = Len(calls) /\ Len(d) = Len(calls)

\* The first call of a two-call plan failed: one audit entry, one dispatch.
AbortedAtFirstOfTwo ==
    /\ pc["t1"] = "aborted"
    /\ Len(plan["t1"].tool_calls) = 2
    /\ Len(audit["t1"]) = 1
    /\ Len(dispatched["t1"]) = 1

\* C2: when a call fails the caller receives the error alone (no message,
\* preview, artifacts or audit), the artifacts saved by the earlier calls of
\* the plan are still in the store, and the requests sent to the CRM backend
\* are those of the calls dispatched, none sent to undo them.
AbortReturnsOnlyError ==
    LET t == "t1"
        calls == plan[t].tool_calls
        d == dispatched[t]
        s == saves[t]
        Sends(i) == calls[i].tool \in WriteToolNames /\ WriteSpecValid(calls[i].tool, calls[i].args) /\ cfg.swagger
        senders == SelectSeq([i \in 1..Len(d) |-> i], Sends)
    IN  pc[t] = "aborted" =>
          /\ result[t].kind = "error"
          /\ result[t].status >= 400
          /\ result[t].message = ""
          /\ result[t].response = NewResponse
          /\ result[t].audit = <<>>
          /\ \A j \in 1..Len(s) :
                /\ s[j].id \in DOMAIN ARTIFACTS
                /\ (\A k \in (j + 1)..Len(s) : s[k].id # s[j].id) => ARTIFACTS[s[j].id] = s[j].record
          /\ Len(sent[t]) = Len(senders)
          /\ \A j \in 1..Len(sent[t]) :
                sent[t][j] = [path |-> WriteTool(calls[senders[j]].tool).path,
                              method |-> WriteTool(calls[senders[j]].tool).method]

\* A plan aborted at its third call, after a write to the CRM and a saved
\* report.
AbortedAfterWriteAndSave ==
    /\ pc["t1"] = "aborted"
    /\ Len(dispatched["t1"]) = 3
    /\ Len(sent["t1"]) = 1
    /\ Len(saves["t1"]) = 1
    /\ saves["t1"][1].id \in DOMAIN ARTIFACTS
    /\ response["t1"].writes # <<>>

\* C3 (as stated): every mongo.read, and every mongo sheet of report.build,
\* naming a collection the caller may not read fails with 403, whatever its
\* pipeline and its limit, and nothing is read for that collection.
DeniedReadAlways403 ==
    LET t == "t1"
        calls == plan[t].tool_calls
        d == dispatched[t]
        Denied(c) == c \notin Range(rbac_policy(user[t]).allow_collections)
        DeniedSheet(sh) == sh.source = "mongo" /\ Denied(sh.mongo_collection)
    IN  \A j \in 1..Len(d) :
          /\ (calls[j].tool = "mongo.read" /\ Has(calls[j].args, "collection")
                /\ Denied(calls[j].args.collection))
             => /\ pc[t] = "aborted"
                /\ result[t].status = 403
                /\ \A q \in Range(issued[t].queries) : q.collection # calls[j].args.collection
                /\ calls[j].args.collection \notin Range(issued[t].mock)
          /\ (calls[j].tool = "report.build" /\ ReportSpec(calls[j].args).valid
                /\ \E sh \in Range(calls[j].args.sheets) : DeniedSheet(sh))
             => /\ pc[t] = "aborted"
                /\ result[t].status = 403 \/ (cfg.MONGO_AVAILABLE /\ result[t].status = 500)

\* C3 (amended): no aggregate and no mock read is ever issued for a collection
\* outside the caller's allowed collections; a mongo.read naming one fails
\* with 403 when its arguments are well formed (any pipeline, any limit from
\* LimitMin to LimitMax) and with 400 (validation, which runs first) when they
\* are not; a report.build with such a sheet fails with 403 when the sheet is
\* reached, after the reads of the sheets before it.
DeniedReadIssuesNothing ==
    LET t == "t1"
        calls == plan[t].tool_calls
        d == dispatched[t]
        Denied(c) == c \notin Range(rbac_policy(user[t]).allow_collections)
        DeniedSheet(sh) == sh.source = "mongo" /\ Denied(sh.mongo_collection)
    IN  /\ \A q \in Range(issued[t].queries) : ~Denied(q.collection)
        /\ \A c \in Range(issued[t].mock) : ~Denied(c)
        /\ \A j \in 1..Len(d) :
             /\ (calls[j].tool = "mongo.read" /\ Has(calls[j].args, "collection")
                   /\ Denied(calls[j].args.collection))
                => /\ pc[t] = "aborted"
                   /\ IF MongoReadSpec(calls[j].args).valid
                      THEN /\ result[t].status = 403
                           /\ result[t].detail = "User not allowed to access collection"
                      ELSE /\ result[t].status = 400
                           /\ result[t].detail = "Validation error for"
             /\ (calls[j].tool = "report.build" /\ ReportSpec(calls[j].args).valid
                   /\ \E sh \in Range(calls[j].args.sheets) : DeniedSheet(sh))
                => /\ pc[t] = "aborted"
                   /\ result[t].status = 403 \/ (cfg.MONGO_AVAILABLE /\ result[t].status = 500)

\* A read of a disallowed collection whose pipeline carries a $where stage was
\* refused with 403, nothing issued.
DeniedWhereReadRefused ==
    /\ pc["t1"] = "aborted"
    /\ plan["t1"].tool_calls[Len(dispatched["t1"])] = ReadUsersWhere
    /\ result["t1"].status = 403
    /\ issued["t1"] = NoIssued

\* C4: after every mongo.read that returns, on the live path and on the mock
\* path, the working relation (and the preview taken from it) has no column
\* whose leading segment is a denied field, and every row has exactly the
\* columns kept.
ReadResultIsRedacted ==
    LET t == "t1"
        calls == plan[t].tool_calls
        d == dispatched[t]
        deny == Range(rbac_policy(user[t]).deny_fields)
    IN  (d # <<>> /\ d[Len(d)].ok /\ calls[Len(d)].tool = "mongo.read") =>
          /\ ~df_cache[t].none
          /\ \A c \in Range(df_cache[t].columns) : Head(c) \notin deny
          /\ \A r \in Range(df_cache[t].rows) : DOMAIN r = Range(df_cache[t].columns)
          /\ \A r \in Range(response[t].preview_rows) : \A c \in DOMAIN r : Head(c) \notin deny

\* A live read of documents carrying ssn and salary (flat and nested) returned:
\* the relation keeps profile.ssn, whose leading segment is profile.
RedactedLiveRead ==
    /\ cfg.MONGO_AVAILABLE
    /\ pc["t1"] = "loop"
    /\ dispatched["t1"] # <<>>
    /\ plan["t1"].tool_calls[Len(dispatched["t1"])].tool = "mongo.read"
    /\ <<"profile", "ssn">> \in Range(df_cache["t1"].columns)
    /\ Len(df_cache["t1"].rows) = 2

\* C5 (as stated): a well-formed mongo.read of an allowed collection whose
\* pipeline carries a $where or a $function operator fails with 400, issues no
\* query and returns no relation, with the live database and with the mock
\* fallback.
ForbiddenStageAlwaysRejected ==
    LET t == "t1"
        calls == plan[t].tool_calls
        d == dispatched[t]
        Code(stage) == {"$where", "$function"} \cap (stage.keys \cup stage.inner) # {}
    IN  \A j \in 1..Len(d) :
          (/\ calls[j].tool = "mongo.read"
           /\ MongoReadSpec(calls[j].args).valid
           /\ calls[j].args.collection \in Range(rbac_policy(user[t]).allow_collections)
           /\ \E stage \in Range(MongoReadSpec(calls[j].args).pipeline) : Code(stage))
          => /\ ~d[j].ok
             /\ result[t].status = 400
             /\ result[t].detail = "Forbidden stage in pipeline"
             /\ \A q \in Range(issued[t].queries) : q.pipeline # calls[j].args.pipeline

AnalyticsExportSucceeds ==
    LET t == "t1"
        calls == plan[t].tool_calls
        d == dispatched[t]
        Total(r) == <<r[<<"owner">>].s, r[<<"amount">>].n>>
    IN  /\ (plan[t] = PlanAnalyticsExport /\ ~cfg.MONGO_AVAILABLE /\ pc[t] \in {"completed", "aborted"})
           => /\ pc[t] = "completed"
              /\ Len(df_cache[t].rows) = 3
              /\ {Total(r) : r \in Range(df_cache[t].rows)}
                    = {<<"Priya", 59000>>, <<"Aryan", 85000>>, <<"Sneha", 45000>>}
              /\ result[t].response.preview_rows = df_cache[t].rows
              /\ DOMAIN result[t].response.artifacts = {"excel"}
              /\ result[t].response.artifacts["excel"].artifact_id \in DOMAIN ARTIFACTS
              /\ Cardinality(DOMAIN ARTIFACTS) = 1
              /\ result[t].message = "Exported Excel with totals by owner."
        /\ \A j \in 2..Len(d) :
              (calls[j].tool = "excel" /\ calls[j - 1].tool \in {"mongo.read", "df.op", "metabase.query"})
              => d[j].ok

\* C10: a plot call dispatched while the working relation is absent or has no
\* rows fails with 400 "No data to plot", whatever its kind, x and y; the
\* step stores no artifact and leaves the response as it was.
PlotOnEmptyFails400 ==
    [][LET t == "t1"
           tc == plan[t].tool_calls[Len(audit[t])]
       IN  (/\ pc[t] = "dispatch"
            /\ tc.tool = "plot"
            /\ PlotSpec(tc.args).valid
            /\ df_cache[t].none \/ Len(df_cache[t].rows) = 0)
           => /\ pc'[t] = "aborted"
              /\ result'[t].status = 400
              /\ result'[t].detail = "No data to plot"
              /\ ARTIFACTS' = ARTIFACTS
              /\ response' = response
              /\ pending' = pending
              /\ saves' = saves]_vars

\* A pie plot without y, after a read that returned a relation of no rows,
\* was refused; the store is empty.
PlotOnZeroRowsRefused ==
    /\ pc["t1"] = "aborted"
    /\ Len(dispatched["t1"]) = 2
    /\ plan["t1"].tool_calls[2] = PlotPieNoY
    /\ ~df_cache["t1"].none
    /\ Len(df_cache["t1"].rows) = 0
    /\ result["t1"].status = 400
    /\ result["t1"].detail = "No data to plot"
    /\ ARTIFACTS = EmptyMap

\* C11 (as stated): when an execution completes, every id a plot, excel or
\* report.build call of the execution saved into the store is the artifact_id
\* of an entry of the response's artifacts, also when a tool saved twice.
EveryArtifactListed ==
    LET t == "t1"
        s == saves[t]
        listed == {result[t].response.artifacts[k].artifact_id : k \in DOMAIN result[t].response.artifacts}
    IN  pc[t] = "completed" => \A j \in 1..Len(s) : s[j].id \in listed

\* C12: at every step of an execution, and in the response returned,
\* preview_rows is the first min(10, n) rows, in order, of the current working
\* relation of n rows, and is empty while there is none.
PreviewIsHeadOfRelation ==
    LET t == "t1"
        rows == df_cache[t].rows
        shown == IF df_cache[t].none THEN <<>>
                 ELSE SubSeq(rows, 1, IF Len(rows) < PreviewRows THEN Len(rows) ELSE PreviewRows)
    IN  /\ response[t].preview_rows = shown
        /\ pc[t] = "completed" => result[t].response.preview_rows = shown

\* A read returned more rows than a preview holds and the execution completed.
PreviewCutToTen ==
    /\ pc["t1"] = "completed"
    /\ Len(df_cache["t1"].rows) = PreviewRows + 1
    /\ Len(result["t1"].response.preview_rows) = PreviewRows

\* C13 (as stated): when an execution completes, the message is the plan's
\* final_message whenever it is a string, the empty string included, and is
\* "Done." only when final_message is null.
MessageIsFinalMessageUnlessNull ==
    LET t == "t1"
        fm == plan[t].final_message
    IN  pc[t] = "completed" =>
            result[t].message = (IF fm = <<>> THEN "Done." ELSE fm[1])

\* C13 (amended): when an execution completes, the message is the plan's
\* final_message when that is a non-empty string, and is "Done." when
\* final_message is null or the empty string, whichever tools ran.
MessageIsFinalMessageUnlessEmpty ==
    LET t == "t1"
        fm == plan[t].final_message
    IN  pc[t] = "completed" =>
            result[t].message = (IF fm = <<>> THEN "Done." ELSE IF fm[1] = "" THEN "Done." ELSE fm[1])

\* A plan with the empty string as final_message ran a tool and completed
\* with the default message.
EmptyMessageCompleted ==
    /\ pc["t1"] = "completed"
    /\ plan["t1"].final_message = <<"">>
    /\ Len(audit["t1"]) > 0
    /\ result["t1"].message = "Done."

\* C14: when an execution completes, embed_urls holds one URL per
\* metabase.embed call of the plan, the URL of that call, in call order, and
\* writes holds one result per call of a crm.* or transport.* write tool of the
\* plan, filed under that tool's key, in call order; neither list holds
\* anything else.
EmbedsAndWritesInCallOrder ==
    LET t == "t1"
        keys == [tool \in {"crm.create_task", "crm.create_note", "crm.log_call", "crm.create_activity",
                           "crm.update_lead", "transport.toggle_vehicle_type", "transport.add_tracking_log",
                           "transport.cancel_trip", "transport.allocate_students",
                           "transport.change_route_status", "transport.allocate_staff"} |->
                    CASE tool = "crm.create_task" -> "create_task"
                      [] tool = "crm.create_note" -> "create_note"
                      [] tool = "crm.log_call" -> "log_call"
                      [] tool = "crm.create_activity" -> "create_activity"
                      [] tool = "crm.update_lead" -> "update_lead"
                      [] tool = "transport.toggle_vehicle_type" -> "toggle_vehicle_type"
                      [] tool = "transport.add_tracking_log" -> "add_tracking_log"
                      [] tool = "transport.cancel_trip" -> "cancel_trip"
                      [] tool = "transport.allocate_students" -> "allocate_students"
                      [] tool = "transport.change_route_status" -> "change_route_status"
                      [] tool = "transport.allocate_staff" -> "allocate_staff"]
        IsEmbed(c) == c.tool = "metabase.embed"
        IsWrite(c) == c.tool \in DOMAIN keys
        embeds == SelectSeq(plan[t].tool_calls, IsEmbed)
        written == SelectSeq(plan[t].tool_calls, IsWrite)
        urls == result[t].response.embed_urls
        writes == result[t].response.writes
    IN  pc[t] = "completed" =>
            /\ Len(urls) = Len(embeds)
            /\ \A i \in 1..Len(embeds) :
                  urls[i] = <<"/embed/", embeds[i].args.resource_type, embeds[i].args.resource_id,
                              IF "theme" \in DOMAIN embeds[i].args THEN embeds[i].args.theme ELSE "light">>
            /\ Len(writes) = Len(written)
            /\ \A i \in 1..Len(written) :
                  /\ writes[i].key = keys[written[i].tool]
                  /\ writes[i].out \in {"json", "text"}

\* An execution completed after two embed calls for different resources and
\* two calls of different write tools.
TwoEmbedsTwoWritesCompleted ==
    LET r == result["t1"].response
    IN  /\ pc["t1"] = "completed"
        /\ Len(r.embed_urls) = 2 /\ r.embed_urls[1] # r.embed_urls[2]
        /\ Len(r.writes) = 2 /\ r.writes[1].key # r.writes[2].key

\* C15: the working relation and preview_rows change only in a step that
\* dispatches mongo.read, df.op or metabase.query; a step of report.build,
\* metabase.embed, a write tool, plot or excel, and the save of an artifact,
\* leave both as they were; and the report that report.build hands to the store
\* holds the rows of its sheets' own queries (in the mock environment: the mock
\* rows of each sheet's collection), whatever the working relation holds.
OnlyRelationToolsChangeRelation ==
    [][LET t == "t1"
           RowsOf(sh) == IF sh.source = "mongo" /\ sh.mongo_collection # ""
                         THEN Len(MockRows(sh.mongo_collection)) ELSE 0
           RECURSIVE Total(_)
           Total(sheets) == IF sheets = <<>> THEN 0 ELSE RowsOf(Head(sheets)) + Total(Tail(sheets))
       IN  /\ (df_cache'[t] # df_cache[t] \/ response'[t].preview_rows # response[t].preview_rows)
                  => /\ pc[t] = "dispatch"
                     /\ plan[t].tool_calls[Len(audit[t])].tool \in {"mongo.read", "df.op", "metabase.query"}
           /\ (/\ pc[t] = "dispatch"
               /\ plan[t].tool_calls[Len(audit[t])].tool = "report.build"
               /\ pc'[t] = "save"
               /\ ~cfg.MONGO_AVAILABLE)
                  => pending'[t].record.bytes.n = Total(plan[t].tool_calls[Len(audit[t])].args.sheets)
      ]_vars

\* A report was built and saved after a read, the working relation and the
\* preview still hold the rows of the read, and the report holds a different
\* number of rows.
ReportBuiltBesideRelation ==
    LET t == "t1"
    IN  /\ pc[t] = "completed"
        /\ Len(plan[t].tool_calls) = 2
        /\ plan[t].tool_calls[1].tool = "mongo.read"
        /\ plan[t].tool_calls[2].tool = "report.build"
        /\ ~df_cache[t].none
        /\ result[t].response.preview_rows = df_cache[t].rows
        /\ Len(saves[t]) = 1
        /\ saves[t][1].record.bytes.n # Len(df_cache[t].rows)

\* C16 (as stated): a call whose args do not fit the tool's contract (a
\* required field missing, a mongo.read limit outside 1..20000, a df.op select
\* without columns or groupby without by) fails with 400 "Validation error for"
\* naming the tool, and the step leaves the working relation, the artifact
\* store, the queries issued and the requests sent as they were; a call of an
\* unregistered tool fails with 400 "Unknown tool".
MisfitArgsFailValidation ==
    [][LET t == "t1"
           tc == plan[t].tool_calls[Len(audit[t])]
           args == tc.args
           params == IF "params" \in DOMAIN args THEN args.params ELSE [x \in {} |-> x]
           misfit ==
               \/ tc.tool = "mongo.read" /\ ~MongoReadSpec(args).valid
               \/ tc.tool = "df.op" /\ ~DataframeOpSpec(args).valid
               \/ tc.tool = "df.op" /\ DataframeOpSpec(args).valid
                     /\ \/ args.operation = "select" /\ "columns" \notin DOMAIN params
                        \/ args.operation = "groupby" /\ "by" \notin DOMAIN params
               \/ tc.tool = "plot" /\ ~PlotSpec(args).valid
               \/ tc.tool = "metabase.query" /\ ~MetabaseQuerySpec(args).valid
               \/ tc.tool = "metabase.embed" /\ ~MetabaseEmbedSpec(args).valid
               \/ tc.tool \in WriteToolNames /\ ~WriteSpecValid(tc.tool, args)
               \/ tc.tool = "report.build" /\ ~ReportSpec(args).valid
           registered ==
               {"mongo.read", "df.op", "plot", "excel", "metabase.query", "metabase.embed", "report.build"}
               \cup WriteToolNames
       IN  pc[t] = "dispatch" =>
               /\ misfit =>
                     /\ pc'[t] = "aborted"
                     /\ result'[t].status = 400
                     /\ result'[t].detail = "Validation error for"
                     /\ result'[t].tool = tc.tool
                     /\ UNCHANGED <<df_cache, ARTIFACTS, issued, sent>>
               /\ tc.tool \notin registered =>
                     /\ pc'[t] = "aborted"
                     /\ result'[t].status = 400
                     /\ result'[t].detail = "Unknown tool"
      ]_vars

\* C17 (as stated): the call at which an execution aborted reports the status
\* of its kind of failure: args that do not validate 400, unknown tool 400,
\* a collection the user may not read 403, a collaborator that is not
\* configured 503, a plot of no rows or with a spec that does not fit its kind
\* 400, and a failure of a configured collaborator (the CRM backend or the
\* analytics service answering with a non-success status included) 500.
FailureStatusByKind ==
    LET t == "t1"
        tc == plan[t].tool_calls[Len(audit[t])]
        args == tc.args
        status == result[t].status
        registered ==
            {"mongo.read", "df.op", "plot", "excel", "metabase.query", "metabase.embed", "report.build"}
            \cup WriteToolNames
        invalid ==
            \/ tc.tool = "mongo.read" /\ ~MongoReadSpec(args).valid
            \/ tc.tool = "df.op" /\ ~DataframeOpSpec(args).valid
            \/ tc.tool = "plot" /\ ~PlotSpec(args).valid
            \/ tc.tool = "metabase.query" /\ ~MetabaseQuerySpec(args).valid
            \/ tc.tool = "metabase.embed" /\ ~MetabaseEmbedSpec(args).valid
            \/ tc.tool \in WriteToolNames /\ ~WriteSpecValid(tc.tool, args)
            \/ tc.tool = "report.build" /\ ~ReportSpec(args).valid
        allowed == args.collection \in Range(rbac_policy(user[t]).allow_collections)
        forbidden == \E stage \in Range(MongoReadSpec(args).pipeline) : {"$where", "$function"} \cap stage.keys # {}
        fits == LET s == PlotSpec(args)
                IN  \/ s.kind \in {"bar", "line", "scatter"} /\ s.x # "" /\ s.y # ""
                    \/ s.kind = "pie" /\ s.y # ""
    IN  pc[t] = "aborted" =>
            /\ invalid => status = 400
            /\ tc.tool \notin registered => status = 400
            /\ tc.tool = "mongo.read" /\ ~invalid /\ ~allowed => status = 403
            /\ tc.tool = "mongo.read" /\ ~invalid /\ allowed /\ forbidden => status = 400
            /\ tc.tool = "mongo.read" /\ ~invalid /\ allowed /\ ~forbidden => status = 500
            /\ tc.tool = "plot" /\ ~invalid /\ (IsEmpty(df_cache[t]) \/ ~fits) => status = 400
            /\ tc.tool = "metabase.query" /\ ~invalid /\ ~cfg.site => status = 503
            /\ tc.tool = "metabase.query" /\ ~invalid /\ cfg.site => status = 500
            /\ tc.tool = "metabase.embed" /\ ~invalid /\ ~(cfg.site /\ cfg.embed_secret) => status = 503
            /\ tc.tool \in WriteToolNames /\ ~invalid /\ ~cfg.swagger => status = 503
            /\ tc.tool \in WriteToolNames /\ ~invalid /\ cfg.swagger => status = 500

\* C18 (as stated): the error with which an execution aborts names the tool
\* of the call that failed, whatever the kind of the failure.
AbortNamesFailingTool ==
    LET t == "t1"
    IN  pc[t] = "aborted" => result[t].tool = plan[t].tool_calls[Len(audit[t])].tool

\* C19 (as stated): no step shortens or rewrites the log of a session: the log
\* before a step is a prefix of the log after it, one entry longer when the
\* step appends the user's message or the reply of a chat on the session and
\* equal otherwise; and between requests the log of a session whose chats all
\* ended with a reply holds two entries per chat, alternating user and
\* assistant.
LogOnlyGrows ==
    [][LET t == "t1"
           Log(s) == IF s \in DOMAIN sessions THEN lists[sessions[s]] ELSE <<>>
           LogAfter(s) == IF s \in DOMAIN sessions' THEN lists'[sessions'[s]] ELSE <<>>
           Replied(s) == {i \in 1..Len(chats') : chats'[i].session_id = s /\ chats'[i].ok}
           Failed(s) == {i \in 1..Len(chats') : chats'[i].session_id = s /\ ~chats'[i].ok}
       IN  \A s \in SessionIds :
               /\ Len(LogAfter(s)) =
                     Len(Log(s)) + (IF pc[t] \in {"chat_append", "reply_append"} /\ chat[t].session_id = s
                                    THEN 1 ELSE 0)
               /\ SubSeq(LogAfter(s), 1, Len(Log(s))) = Log(s)
               /\ (pc'[t] = "idle" /\ Failed(s) = {}) =>
                     /\ Len(LogAfter(s)) = 2 * Cardinality(Replied(s))
                     /\ \A i \in 1..Len(LogAfter(s)) :
                           LogAfter(s)[i].role = (IF i % 2 = 1 THEN "user" ELSE "assistant")
      ]_vars

\* C19 (amended): a step other than the deletion of a session leaves the log
\* of every session a prefix of its log after the step, one entry longer when
\* the step appends the user's message or the reply of a chat on the session
\* and equal otherwise; the deletion of a session removes its whole log and
\* leaves the other logs as they were; between requests the log of a session
\* that was not deleted holds two entries per chat that ended with a reply and
\* one per chat that failed, alternating user and assistant when none failed;
\* and the planner of a chat is handed the whole log, the new message last.
LogShrinksOnlyByDelete ==
    [][LET t == "t1"
           Log(s) == IF s \in DOMAIN sessions THEN lists[sessions[s]] ELSE <<>>
           LogAfter(s) == IF s \in DOMAIN sessions' THEN lists'[sessions'[s]] ELSE <<>>
           Replied(s) == {i \in 1..Len(chats') : chats'[i].session_id = s /\ chats'[i].ok}
           Failed(s) == {i \in 1..Len(chats') : chats'[i].session_id = s /\ ~chats'[i].ok}
           Deleted(s) == Len(deletes') > Len(deletes) /\ deletes'[Len(deletes')] = s
       IN  \A s \in SessionIds :
               /\ Deleted(s) => LogAfter(s) = <<>>
               /\ ~Deleted(s) =>
                     /\ Len(LogAfter(s)) =
                           Len(Log(s)) + (IF pc[t] \in {"chat_append", "reply_append"} /\ chat[t].session_id = s
                                          THEN 1 ELSE 0)
                     /\ SubSeq(LogAfter(s), 1, Len(Log(s))) = Log(s)
               /\ (pc'[t] = "idle" /\ s \notin Range(deletes')) =>
                     /\ Len(LogAfter(s)) = 2 * Cardinality(Replied(s)) + Cardinality(Failed(s))
                     /\ Failed(s) = {} =>
                           \A i \in 1..Len(LogAfter(s)) :
                               LogAfter(s)[i].role = (IF i % 2 = 1 THEN "user" ELSE "assistant")
               /\ (pc'[t] = "chat_plan" /\ chat'[t].session_id = s) =>
                     /\ lists'[chat'[t].history] = LogAfter(s)
                     /\ LogAfter(s)[Len(LogAfter(s))] = [role |-> "user", content |-> chat'[t].message]
      ]_vars

\* Two chats on one session ended with a reply, no session was deleted, and
\* the log of the session holds the four entries.
TwoChatsFourEntries ==
    /\ pc["t1"] = "idle"
    /\ deletes = <<>>
    /\ Len(chats) = 2
    /\ \A i \in 1..2 : chats[i].session_id = "s1" /\ chats[i].ok
    /\ "s1" \in DOMAIN sessions
    /\ Len(lists[sessions["s1"]]) = 4

\* C20: with chats running in parallel, every append takes effect at the end
\* of the session's log as it is at that moment and nothing else changes a
\* log, so the log of a session holds every entry that was appended to it, in
\* the order the appends took effect; and the log of a session that a single
\* thread appended to is that thread's entries in its own order, whatever the
\* other thread did to another session in between.
AppendsSerializedPerSession ==
    [][LET Log(s) == IF s \in DOMAIN sessions THEN lists[sessions[s]] ELSE <<>>
           LogAfter(s) == IF s \in DOMAIN sessions' THEN lists'[sessions'[s]] ELSE <<>>
           Appends(t) == Len(appended'[t]) > Len(appended[t])
           Last(t) == appended'[t][Len(appended'[t])]
           Own(t, s) == LET On(e) == e.session_id = s IN SelectSeq(appended'[t], On)
       IN  \A s \in SessionIds :
               /\ \A t \in Threads :
                     (Appends(t) /\ Last(t).session_id = s) => LogAfter(s) = Append(Log(s), Last(t).entry)
               /\ (\A t \in Threads : ~(Appends(t) /\ Last(t).session_id = s)) => LogAfter(s) = Log(s)
               /\ Len(LogAfter(s)) = Len(Own("t1", s)) + Len(Own("t2", s))
               /\ \A t \in Threads :
                     (\A u \in Threads \ {t} : Own(u, s) = <<>>) =>
                         LogAfter(s) = [i \in 1..Len(Own(t, s)) |-> Own(t, s)[i].entry]
      ]_vars

\* Two chats on the same session ran in parallel and both ended with a reply:
\* the log holds the two user entries, then the two replies.
ParallelChatsSameSession ==
    /\ \A t \in Threads : pc[t] = "idle" /\ Len(appended[t]) = 2 /\ appended[t][1].session_id = "s1"
    /\ "s1" \in DOMAIN sessions
    /\ Len(lists[sessions["s1"]]) = 4
    /\ lists[sessions["s1"]][2].role = "user"
    /\ lists[sessions["s1"]][3].role = "assistant"

\* C21: a df.op groupby with the sum aggregator that succeeds on a working
\* relation leaves a relation whose columns are the key columns followed by
\* the value columns, with exactly one row per distinct key held by a row of
\* the input, each value column holding the sum of that column over the input
\* rows of that key, the rows in ascending key order (so the same input gives
\* the same output order); on the four leads Priya 24000, Aryan 85000, Sneha
\* 45000, Priya 35000 grouped by owner it leaves exactly the three rows Priya
\* 59000, Aryan 85000, Sneha 45000.
GroupBySumOneRowPerKey ==
    [][LET t == "t1"
           tc == plan[t].tool_calls[Len(audit[t])]
           by == tc.args.params.by
           agg == tc.args.params.agg
           vals == [i \in 1..Len(agg) |-> agg[i].col]
           in == df_cache[t].rows
           out == df_cache'[t].rows
           Key(r) == [c \in Range(by) |-> r[c]]
           keyed == {i \in 1..Len(in) : \A c \in Range(by) : in[i][c].k # "nan"}
           Total(key, c) ==
               LET of == {i \in keyed : Key(in[i]) = key}
                   Sum[n \in 0..Len(in)] ==
                       IF n = 0 THEN 0 ELSE Sum[n - 1] + (IF n \in of /\ in[n][c].k = "num" THEN in[n][c].n ELSE 0)
               IN  Sum[Len(in)]
           owner == <<"owner">>
           amount == <<"amount">>
       IN  (/\ pc[t] = "dispatch"
            /\ pc'[t] = "loop"
            /\ tc.tool = "df.op"
            /\ tc.args.operation = "groupby"
            /\ \A i \in 1..Len(agg) : agg[i].fn = "sum"
            /\ ~df_cache[t].none)
           => /\ df_cache'[t].columns = by \o vals
              /\ {Key(out[g]) : g \in 1..Len(out)} = {Key(in[i]) : i \in keyed}
              /\ Len(out) = Cardinality({Key(in[i]) : i \in keyed})
              /\ \A g \in 1..Len(out) : \A c \in Range(vals) : out[g][c] = Num(Total(Key(out[g]), c))
              /\ \A g \in 1..Len(out) : \A h \in 1..Len(out) : g < h => RowLess(out[g], out[h], by)
              /\ (/\ by = <<owner>>
                  /\ vals = <<amount>>
                  /\ [i \in 1..Len(in) |-> <<in[i][owner], in[i][amount]>>]
                        = <<<<Str("Priya"), Num(24000)>>, <<Str("Aryan"), Num(85000)>>,
                            <<Str("Sneha"), Num(45000)>>, <<Str("Priya"), Num(35000)>>>>)
                 => /\ Len(out) = 3
                    /\ {<<out[g][owner], out[g][amount]>> : g \in 1..3}
                          = {<<Str("Priya"), Num(59000)>>, <<Str("Aryan"), Num(85000)>>,
                             <<Str("Sneha"), Num(45000)>>}
      ]_vars

\* The four leads were read and grouped by owner: three rows are left, the two
\* leads of Priya summed into one.
FourLeadsGroupedByOwner ==
    LET t == "t1"
        rows == df_cache[t].rows
    IN  /\ pc[t] = "completed"
        /\ Len(plan[t].tool_calls) = 2
        /\ plan[t].tool_calls[1].tool = "mongo.read"
        /\ plan[t].tool_calls[2].tool = "df.op"
        /\ plan[t].tool_calls[2].args.operation = "groupby"
        /\ Len(rows) = 3
        /\ \E g \in 1..3 : rows[g][<<"owner">>] = Str("Priya") /\ rows[g][<<"amount">>] = Num(59000)

PlanOnlyExecutesNothing ==
    [][LET Log(s) == IF s \in DOMAIN sessions THEN lists[sessions[s]] ELSE <<>>
           LogAfter(s) == IF s \in DOMAIN sessions' THEN lists'[sessions'[s]] ELSE <<>>
           last == planned'[Len(planned')]
           Own(s) == LET On(e) == e.session_id = s IN SelectSeq(appended'["t1"], On)
       IN  /\ planned' # planned =>
                 /\ UNCHANGED <<ARTIFACTS, pc, audit, df_cache, response, pending, dispatched, issued, sent,
                                saves, appended, chats>>
                 /\ \A s \in SessionIds : LogAfter(s) = Log(s)
                 /\ last.messages = Log(last.session_id) \o <<[role |-> "user", content |-> last.message]>>
                 /\ last.plan = LLMClient_plan(last.messages)
           /\ \A s \in SessionIds : LogAfter(s) = [i \in 1..Len(Own(s)) |-> Own(s)[i].entry]
      ]_vars

\* A plan-only request was served on a session between two chats that both
\* ended with a reply: the planner saw the first chat's two entries and the
\* new message, and the log holds the four entries of the two chats.
PlanOnlyBetweenChats ==
    /\ pc["t1"] = "idle"
    /\ Len(planned) = 1
    /\ Len(planned[1].messages) = 3
    /\ Len(chats) = 2
    /\ \A i \in 1..2 : chats[i].ok /\ chats[i].session_id = planned[1].session_id
    /\ Len(lists[sessions[planned[1].session_id]]) = 4

\* C24: every run of the agent on a query of the test returns without raising,
\* after at least 1 and at most MAX_ITERATIONS steps, with a response that
\* lists every recorded step and whose summary is the observation of the last
\* step.
RunReturnsWithinTenSteps ==
    \A i \in 1..Len(runs) :
        /\ runs[i].raised = ""
        /\ runs[i].iterations >= 1
        /\ runs[i].iterations <= 10
        /\ Len(runs[i].steps) = runs[i].iterations
        /\ runs[i].summary = runs[i].steps[Len(runs[i].steps)].observation

\* C25: with two chats running in parallel, the plan each request obtains is
\* the plan of its own inbound message: the last message of the list the
\* planner is given is the message of the request being served.
PlanFromOwnMessage ==
    [][\A t \in Threads :
          (pc[t] = "chat_plan" /\ pc'[t] = "loop") =>
              /\ lists[chat[t].history][Len(lists[chat[t].history])] = [role |-> "user", content |-> chat[t].message]
              /\ plan'[t] = LLMClient_plan(<<[role |-> "user", content |-> chat[t].message]>>)
      ]_vars

\* C26: at every step of an execution, whatever calls came before, no column
\* of the working relation and no key of a preview row is named by an entry of
\* the user's denied fields (the name itself or a name under it).
NoDeniedColumnEver ==
    LET t == "t1"
        deny == Range(rbac_policy(user[t]).deny_fields)
    IN  /\ \A c \in Range(df_cache[t].columns) : Head(c) \notin deny
        /\ \A r \in Range(response[t].preview_rows) : \A c \in DOMAIN r : Head(c) \notin deny

\* C27: a df.op call with well-formed args whose operation (in lower case) is
\* not one of select, filter, sort, groupby, pivot aborts the execution with
\* status 400, whether or not an earlier call produced a working relation.
UnknownOperationAborts ==
    [][LET t == "t1"
           tc == plan[t].tool_calls[Len(audit[t])]
       IN  (/\ pc[t] = "dispatch"
            /\ pc'[t] # "dispatch"
            /\ tc.tool = "df.op"
            /\ DataframeOpSpec(tc.args).valid
            /\ Lower(tc.args.operation) \notin {"select", "filter", "sort", "groupby", "pivot"})
           => /\ pc'[t] = "aborted"
              /\ result'[t].status = 400
      ]_vars

\* C28: after a user has chatted on a session through the chat endpoint and
\* the chats on that session ended with a reply, a read of the session's
\* messages by that user succeeds and returns the log with the user's
\* message, and a read by a user other than admin who is not the recorded
\* owner of the session and has not chatted on it is refused with 403.
OwnerAndAdminReadSession ==
    [][fetched' # fetched =>
        LET f == fetched'[Len(fetched')]
            ended == \E k \in 1..Len(chats) : chats[k].session_id = f.session_id /\ chats[k].ok
            recorded == /\ f.session_id \in DOMAIN SESSION_METADATA
                        /\ "user_id" \in DOMAIN SESSION_METADATA[f.session_id]
                        /\ SESSION_METADATA[f.session_id]["user_id"] = f.user_id
        IN  /\ (<<f.session_id, f.user_id>> \in chatted /\ ended)
                => /\ f.status = 200
                   /\ \E k \in 1..Len(f.messages) : f.messages[k].role = "user"
            /\ (f.user_id # "admin" /\ ~recorded /\ <<f.session_id, f.user_id>> \notin chatted)
                => f.status = 403]_vars

ReadOutcomeSameForEveryUser ==
    [][LET t == "t1"
           tc == plan[t].tool_calls[Len(audit[t])]
           spec == MongoReadSpec(tc.args)
           answers == IF cfg.MONGO_AVAILABLE THEN DbAnswers ELSE {NoAnswer}
           Seen(r) == IF r.kind = "ok"
                      THEN pc'[t] # "aborted" /\ df_cache'[t] = r.df
                      ELSE pc'[t] = "aborted" /\ result'[t].status = r.status
           Same(mine, r) == r.kind = mine.kind /\ r.status = mine.status /\ r.df = mine.df
           SameForAll(mine, ans) ==
               Seen(mine) => \A u \in (UserIds \cup {"admin", "analyst"}) \ {user[t]} :
                                Same(mine, run_mongo(u, spec, cfg.MONGO_AVAILABLE, ans))
       IN  (pc[t] = "dispatch" /\ pc'[t] # "dispatch" /\ tc.tool = "mongo.read" /\ spec.valid)
              => /\ \E ans \in answers : Seen(run_mongo(user[t], spec, cfg.MONGO_AVAILABLE, ans))
                 /\ \A ans \in answers :
                       SameForAll(run_mongo(user[t], spec, cfg.MONGO_AVAILABLE, ans), ans)]_vars

\* A user of the analyst role read documents that carry ssn and salary from the
\* live database, and the relation returned has neither column.
AnalystReadSensitiveDocuments ==
    /\ cfg.MONGO_AVAILABLE
    /\ user["t1"] = "manager"
    /\ rbac_policy("manager").role = "analyst" /\ rbac_policy("alice").role = "admin"
    /\ Len(dispatched["t1"]) = 1
    /\ dispatched["t1"][1].ok
    /\ plan["t1"].tool_calls[1].tool = "mongo.read"
    /\ issued["t1"].queries # <<>>
    /\ ~df_cache["t1"].none
    /\ <<"profile", "ssn">> \in Range(df_cache["t1"].columns)
    /\ <<"ssn">> \notin Range(df_cache["t1"].columns)

====
